---- MODULE Spec2Model ----
(***************************************************************************)
(* Bbannotate: the annotation store (AnnotationService) and the export     *)
(* engine (ExportService) as a state machine over the store directory.     *)
(*                                                                         *)
(* A filename is the record [base, sfx, ext]: the string                   *)
(* base ++ "_n" for every n of sfx ++ "." ++ ext.  Its stem is (base, sfx).*)
(* Strings are compared through their code points (Chars, Render).         *)
(***************************************************************************)
EXTENDS Integers, Sequences, FiniteSets, TLC

VARIABLES images, annotations, uuid, last, zips, pc, projects, now, session

vars == <<images, annotations, uuid, last, zips, pc, projects, now, session>>

(***************************************************************************)
(* Bounds of the exploration: files in images/, annotations per record,    *)
(* identifiers generated.  Spec explores the image files and their records,*)
(* SpecUpload the names upload_image gives, SpecAnnot and SpecCopy the     *)
(* annotation lists, SpecExport the exports.                               *)
(***************************************************************************)
MaxFiles == 2
MaxAnns == 1
MaxUuid == 1
ZipMaxFiles == 1
ZipMaxAnns == 1
ZipMaxUuid == 1
FormatsMaxFiles == 2
FormatsMaxAnns == 1
FormatsMaxUuid == 1
BoxMaxAnns == 1
BoxMaxUuid == 1
ProjMaxProjects == 2
ProjMaxNow == 7
StatsMaxNow == 4
StatsMaxFiles == 2
StatsMaxAnns == 2
SessMaxNow == 8
RaceMaxUuid == 2
MidMaxUuid == 2
UploadMaxFiles == 3
AnnotMaxAnns == 2
AnnotMaxUuid == 2
CopyMaxAnns == 3
CopyMaxUuid == 5
ExportMaxFiles == 2
ExportMaxAnns == 2
ExportMaxUuid == 2

(***************************************************************************)
(* Input domains.  A box coordinate is in thousandths, a train split in    *)
(* tenths; content 0 is bytes that are no image.                           *)
(***************************************************************************)
Bases == {"a", "b"}
Exts == {"png", "jpg", "gif"}
Dirs == {"", "../"}
Labels == {"ant", "bee"}
ClassIds == {0, 1}
BBoxes == { [x |-> 500, y |-> 500, width |-> 200, height |-> 200],
            [x |-> 700, y |-> 700, width |-> 300, height |-> 300] }
Contents == {0, 1, 2}
TrainSplits == {5, 8, 10}

Opt(S) == {<<>>} \cup { <<s>> : s \in S }

UploadNames == [base : Bases, sfx : {<<>>}, ext : Exts]
AnnotationCreate == [label : Labels, class_id : ClassIds, bbox : BBoxes]
AnnotationUpdate == [label : Opt(Labels), class_id : Opt(ClassIds), bbox : Opt(BBoxes)]

(***************************************************************************)
(* Strings as code points; Python compares str values code point by code   *)
(* point (sorted() in list_images and _get_all_labels).                    *)
(***************************************************************************)
Chars(s) ==
    CASE s = "a" -> <<97>>
      [] s = "b" -> <<98>>
      [] s = "png" -> <<112, 110, 103>>
      [] s = "jpg" -> <<106, 112, 103>>
      [] s = "gif" -> <<103, 105, 102>>
      [] s = "jpeg" -> <<106, 112, 101, 103>>
      [] s = "webp" -> <<119, 101, 98, 112>>
      [] s = "bmp" -> <<98, 109, 112>>
      [] s = "ant" -> <<97, 110, 116>>
      [] s = "bee" -> <<98, 101, 101>>
      [] s = "cat" -> <<99, 97, 116>>

RECURSIVE SfxChars(_)
SfxChars(sfx) ==
    IF sfx = <<>> THEN <<>>
    ELSE <<95, 48 + Head(sfx)>> \o SfxChars(Tail(sfx))

Render(f) == Chars(f.base) \o SfxChars(f.sfx) \o <<46>> \o Chars(f.ext)

StrLess(s, t) ==
    \E i \in 1..(Len(s) + 1) :
        /\ i <= Len(t)
        /\ \A j \in 1..(i - 1) : s[j] = t[j]
        /\ (i = Len(s) + 1 \/ s[i] < t[i])

\* sorted(): the values of the (key, val) pairs of P, ascending by key
RECURSIVE SortedBy(_)
SortedBy(P) ==
    IF P = {} THEN <<>>
    ELSE LET m == CHOOSE x \in P : \A y \in P \ {x} : StrLess(x.key, y.key)
         IN <<m.val>> \o SortedBy(P \ {m})

sorted_names(S) == SortedBy({ [key |-> Render(f), val |-> f] : f \in S })
sorted_labels(S) == SortedBy({ [key |-> Chars(l), val |-> l] : l \in S })

Range(s) == { s[i] : i \in 1..Len(s) }

(***************************************************************************)
(* PIL: the bytes decode to an image with a size, or do not decode.        *)
(***************************************************************************)
Decodes(content) == content # 0
ImageSize(content) ==
    IF content = 1 THEN [width |-> 100, height |-> 100]
    ELSE [width |-> 200, height |-> 150]

(***************************************************************************)
(* AnnotationService                                                       *)
(***************************************************************************)
Stem(f) == [base |-> f.base, sfx |-> f.sfx]

\* utils.sanitize_filename: Path(filename).name
sanitize_filename(dir, name) == name

_get_annotation_path(f) == Stem(f)

HasRecord(f) == _get_annotation_path(f) \in DOMAIN annotations

\* _load_metadata: the record, only used under HasRecord
_load_metadata(f) == annotations[_get_annotation_path(f)]

\* a save that stays in the memory of the instance and never reaches the file
_save_metadataUnwritten(anns, metadata) == anns

\* _save_metadata: whole-file overwrite at the path of metadata.image.filename
_save_metadata(anns, metadata) ==
    LET p == _get_annotation_path(metadata.image.filename)
    IN [q \in DOMAIN anns \cup {p} |-> IF q = p THEN metadata ELSE anns[q]]

Exists(f) == f \in DOMAIN images

ImageExtensions == {"jpg", "jpeg", "png", "webp", "bmp"}

\* str.lower() of a suffix
Lower(ext) ==
    CASE ext = "PNG" -> "png"
      [] ext = "JPG" -> "jpg"
      [] OTHER -> ext

list_images == sorted_names({ f \in DOMAIN images : Lower(f.ext) \in ImageExtensions })

get_image_path(f) == IF Exists(f) THEN <<f>> ELSE <<>>

get_annotations(f) == IF HasRecord(f) THEN _load_metadata(f).annotations ELSE <<>>

get_image_done_status(f) == IF HasRecord(f) THEN <<_load_metadata(f).done>> ELSE <<>>

\* get_project_info: the statistics over the record files of annotations/
get_project_info ==
    [labels |-> sorted_labels(UNION { { ann.label : ann \in Range(annotations[q].annotations) }
                                      : q \in DOMAIN annotations }),
     image_count |-> Cardinality(DOMAIN annotations),
     annotation_count |->
         Cardinality(UNION { {q} \X (1..Len(annotations[q].annotations))
                             : q \in DOMAIN annotations }),
     annotated_image_count |->
         Cardinality({ q \in DOMAIN annotations : annotations[q].annotations # <<>> }),
     done_image_count |->
         Cardinality({ q \in DOMAIN annotations : annotations[q].done })]

\* a duplicate-name step that tries one counter and does not loop
FreeNameOnce(f, counter) == [base |-> f.base, sfx |-> f.sfx \o <<counter>>, ext |-> f.ext]

\* the duplicate-name loop of upload_image
RECURSIVE FreeName(_, _)
FreeName(f, counter) ==
    LET cand == [base |-> f.base, sfx |-> f.sfx \o <<counter>>, ext |-> f.ext]
    IN IF Exists(cand) THEN FreeName(f, counter + 1) ELSE cand

ResolveName(f) == IF Exists(f) THEN FreeName(f, 1) ELSE f

\* the call that completed last: its arguments, the branch the handler took,
\* whether it returned (ok) or raised, and what it returned or raised
Call(op, args, branch, ok, ret) ==
    [op |-> op, args |-> args, branch |-> branch, ok |-> ok, ret |-> ret]

\* AnnotationService(data_dir) over a directory that may hold a store already:
\* the instance keeps the three paths and nothing of the files
__init__ ==
    /\ last' = Call("__init__", <<>>, "done", TRUE, TRUE)
    /\ UNCHANGED <<images, annotations, uuid, zips, pc, projects, now, session>>

upload_image(dir, name, content) ==
    IF ~Decodes(content)
    THEN /\ last' = Call("upload_image", [filename |-> name], "invalid", FALSE, "ValueError")
         /\ UNCHANGED <<images, annotations, uuid, zips, pc, projects, now, session>>
    ELSE LET safe_filename == ResolveName(sanitize_filename(dir, name))
             size == ImageSize(content)
             image_info == [filename |-> safe_filename,
                            width |-> size.width, height |-> size.height]
             metadata == [image |-> image_info, annotations |-> <<>>, done |-> FALSE]
         IN /\ images' = [f \in DOMAIN images \cup {safe_filename} |->
                            IF f = safe_filename THEN content ELSE images[f]]
            /\ annotations' = _save_metadata(annotations, metadata)
            /\ last' = Call("upload_image", [filename |-> name],
                            IF safe_filename = name THEN "stored" ELSE "renamed",
                            TRUE, image_info)
            /\ UNCHANGED <<uuid, zips, pc, projects, now, session>>

\* a deletion that unlinks the image file and keeps the record
delete_imageKeepRecord(f) ==
    /\ images' = [g \in DOMAIN images \ {f} |-> images[g]]
    /\ last' = Call("delete_image", [filename |-> f], "done", TRUE, Exists(f))
    /\ UNCHANGED <<annotations, uuid, zips, pc, projects, now, session>>

delete_image(f) ==
    LET p == _get_annotation_path(f)
    IN /\ images' = [g \in DOMAIN images \ {f} |-> images[g]]
       /\ annotations' = [q \in DOMAIN annotations \ {p} |-> annotations[q]]
       /\ last' = Call("delete_image", [filename |-> f], "done", TRUE,
                       Exists(f) \/ HasRecord(f))
       /\ UNCHANGED <<uuid, zips, pc, projects, now, session>>

\* a marking that writes a fresh record: the flag, and no annotations
mark_image_doneFresh(f, done) ==
    IF ~HasRecord(f)
    THEN /\ last' = Call("mark_image_done", [filename |-> f, done |-> done],
                         "no_record", TRUE, FALSE)
         /\ UNCHANGED <<images, annotations, uuid, zips, pc, projects, now, session>>
    ELSE /\ annotations' = _save_metadata(annotations,
                               [_load_metadata(f) EXCEPT !.done = done, !.annotations = <<>>])
         /\ last' = Call("mark_image_done", [filename |-> f, done |-> done],
                         "saved", TRUE, TRUE)
         /\ UNCHANGED <<images, uuid, zips, pc, projects, now, session>>

mark_image_done(f, done) ==
    IF ~HasRecord(f)
    THEN /\ last' = Call("mark_image_done", [filename |-> f, done |-> done],
                         "no_record", TRUE, FALSE)
         /\ UNCHANGED <<images, annotations, uuid, zips, pc, projects, now, session>>
    ELSE /\ annotations' = _save_metadata(annotations,
                               [_load_metadata(f) EXCEPT !.done = done])
         /\ last' = Call("mark_image_done", [filename |-> f, done |-> done],
                         "saved", TRUE, TRUE)
         /\ UNCHANGED <<images, uuid, zips, pc, projects, now, session>>

\* uuid.uuid4(): an identifier never produced before
NewId(n) == uuid + n

\* a materialized record that is born done and with the sides swapped
MaterializedMetadataDone(f) ==
    LET size == ImageSize(images[f])
    IN [image |-> [filename |-> f, width |-> size.height, height |-> size.width],
        annotations |-> <<>>, done |-> TRUE]

\* the record add_annotation creates for an image file that has none
MaterializedMetadata(f) ==
    LET size == ImageSize(images[f])
    IN [image |-> [filename |-> f, width |-> size.width, height |-> size.height],
        annotations |-> <<>>, done |-> FALSE]

add_annotation(f, create) ==
    IF ~HasRecord(f) /\ ~Exists(f)
    THEN /\ last' = Call("add_annotation", [filename |-> f], "not_found",
                         FALSE, "FileNotFoundError")
         /\ UNCHANGED <<images, annotations, uuid, zips, pc, projects, now, session>>
    ELSE LET metadata == IF HasRecord(f) THEN _load_metadata(f)
                         ELSE MaterializedMetadata(f)
             new_annotation == [id |-> NewId(1), label |-> create.label,
                                class_id |-> create.class_id, bbox |-> create.bbox]
         IN /\ annotations' = _save_metadata(annotations,
                   [metadata EXCEPT !.annotations = Append(@, new_annotation)])
            /\ uuid' = uuid + 1
            /\ last' = Call("add_annotation", [filename |-> f],
                            IF HasRecord(f) THEN "loaded" ELSE "materialized",
                            TRUE, new_annotation)
            /\ UNCHANGED <<images, zips, pc, projects, now, session>>

\* the first index whose annotation has the id, 0 when there is none
FindById(anns, annotation_id) ==
    IF \E i \in 1..Len(anns) : anns[i].id = annotation_id
    THEN CHOOSE i \in 1..Len(anns) :
            /\ anns[i].id = annotation_id
            /\ \A j \in 1..(i - 1) : anns[j].id # annotation_id
    ELSE 0

\* an update that resets the class id the patch leaves out
ApplyUpdateReset(ann, update) ==
    [id |-> ann.id,
     label |-> IF update.label = <<>> THEN ann.label ELSE update.label[1],
     class_id |-> IF update.class_id = <<>> THEN 0 ELSE update.class_id[1],
     bbox |-> IF update.bbox = <<>> THEN ann.bbox ELSE update.bbox[1]]

\* ann.model_dump() updated with update.model_dump(exclude_none=True)
ApplyUpdate(ann, update) ==
    [id |-> ann.id,
     label |-> IF update.label = <<>> THEN ann.label ELSE update.label[1],
     class_id |-> IF update.class_id = <<>> THEN ann.class_id ELSE update.class_id[1],
     bbox |-> IF update.bbox = <<>> THEN ann.bbox ELSE update.bbox[1]]

update_annotation(f, annotation_id, update) ==
    LET i == IF HasRecord(f) THEN FindById(_load_metadata(f).annotations, annotation_id)
             ELSE 0
        args == [filename |-> f, annotation_id |-> annotation_id, update |-> update]
    IN IF i = 0
       THEN /\ last' = Call("update_annotation", args, "not_found", FALSE, "None")
            /\ UNCHANGED <<images, annotations, uuid, zips, pc, projects, now, session>>
       ELSE LET metadata == _load_metadata(f)
                updated == ApplyUpdate(metadata.annotations[i], update)
            IN /\ annotations' = _save_metadata(annotations,
                      [metadata EXCEPT !.annotations[i] = updated])
               /\ last' = Call("update_annotation", args, "saved", TRUE, updated)
               /\ UNCHANGED <<images, uuid, zips, pc, projects, now, session>>

delete_annotation(f, annotation_id) ==
    LET args == [filename |-> f, annotation_id |-> annotation_id]
    IN IF ~HasRecord(f)
       THEN /\ last' = Call("delete_annotation", args, "no_record", TRUE, FALSE)
            /\ UNCHANGED <<images, annotations, uuid, zips, pc, projects, now, session>>
       ELSE LET metadata == _load_metadata(f)
                Keep(ann) == ann.id # annotation_id
                kept == SelectSeq(metadata.annotations, Keep)
            IN IF Len(kept) < Len(metadata.annotations)
               THEN /\ annotations' = _save_metadata(annotations,
                           [metadata EXCEPT !.annotations = kept])
                    /\ last' = Call("delete_annotation", args, "saved", TRUE, TRUE)
                    /\ UNCHANGED <<images, uuid, zips, pc, projects, now, session>>
               ELSE /\ last' = Call("delete_annotation", args, "no_match", TRUE, FALSE)
                    /\ UNCHANGED <<images, annotations, uuid, zips, pc, projects, now, session>>

clear_annotations(f) ==
    IF ~HasRecord(f)
    THEN /\ last' = Call("clear_annotations", [filename |-> f], "no_record", TRUE, 0)
         /\ UNCHANGED <<images, annotations, uuid, zips, pc, projects, now, session>>
    ELSE LET metadata == _load_metadata(f)
         IN /\ annotations' = _save_metadata(annotations,
                   [metadata EXCEPT !.annotations = <<>>])
            /\ last' = Call("clear_annotations", [filename |-> f], "saved", TRUE,
                            Len(metadata.annotations))
            /\ UNCHANGED <<images, uuid, zips, pc, projects, now, session>>

\* copies that keep the identifier of their source
CopiedSameId(anns) ==
    [k \in 1..Len(anns) |->
        [id |-> anns[k].id, label |-> anns[k].label,
         class_id |-> anns[k].class_id, bbox |-> anns[k].bbox]]

\* the copies of copy_annotations: same label, class_id, bbox, a new id each
Copied(anns) ==
    [k \in 1..Len(anns) |->
        [id |-> NewId(k), label |-> anns[k].label,
         class_id |-> anns[k].class_id, bbox |-> anns[k].bbox]]

copy_annotations(source, target) ==
    LET args == [source |-> source, target |-> target]
    IN IF ~HasRecord(source) \/ ~HasRecord(target)
       THEN /\ last' = Call("copy_annotations", args, "no_record", TRUE, 0)
            /\ UNCHANGED <<images, annotations, uuid, zips, pc, projects, now, session>>
       ELSE LET source_metadata == _load_metadata(source)
                target_metadata == _load_metadata(target)
                copied_annotations == Copied(source_metadata.annotations)
            IN /\ annotations' = _save_metadata(annotations,
                      [target_metadata EXCEPT !.annotations = @ \o copied_annotations])
               /\ uuid' = uuid + Len(copied_annotations)
               /\ last' = Call("copy_annotations", args, "saved", TRUE,
                               Len(copied_annotations))
               /\ UNCHANGED <<images, zips, pc, projects, now, session>>

(***************************************************************************)
(* ExportService.  An export writes into a directory of its own; what it   *)
(* wrote is the result of the call.                                        *)
(***************************************************************************)
_get_all_labels ==
    sorted_labels(UNION { { ann.label : ann \in Range(get_annotations(list_images[i])) }
                          : i \in 1..Len(list_images) })

\* list.index / enumerate: the 0-based position of x in s
IndexOf(s, x) == (CHOOSE i \in 1..Len(s) : s[i] = x /\ \A j \in 1..(i - 1) : s[j] # x) - 1

\* a class id taken from the annotation as stored
ClassIdOfStored(labels, ann) == ann.class_id

\* label_to_id.get(ann.label, ann.class_id)
ClassIdOf(labels, ann) ==
    IF ann.label \in Range(labels) THEN IndexOf(labels, ann.label) ELSE ann.class_id

\* the lines of one YOLO label file: class id, then the box with six decimals
YoloLines(labels, anns) ==
    [k \in 1..Len(anns) |->
        [class_id |-> ClassIdOf(labels, anns[k]),
         x |-> anns[k].bbox.x * 1000, y |-> anns[k].bbox.y * 1000,
         width |-> anns[k].bbox.width * 1000, height |-> anns[k].bbox.height * 1000]]

\* _export_yolo_image over the files of one split: image copies and label files
YoloImages(files) == { f \in Range(files) : get_image_path(f) # <<>> }
YoloLabels(files, labels) ==
    [st \in { Stem(f) : f \in YoloImages(files) } |->
        LET f == files[CHOOSE i \in 1..Len(files) :
                        /\ Stem(files[i]) = st
                        /\ files[i] \in YoloImages(files)
                        /\ \A j \in (i + 1)..Len(files) :
                              ~(Stem(files[j]) = st /\ files[j] \in YoloImages(files))]
        IN YoloLines(labels, get_annotations(f))]

\* Paths are sequences of components; the process runs in Cwd
Cwd == <<"/", "srv", "app">>

\* Path.absolute()
Absolute(path) == IF path # <<>> /\ Head(path) = "/" THEN path ELSE Cwd \o path

\* a data.yaml that names a placeholder class when there is no label
_create_yolo_yamlPlaceholder(output_dir, labels) ==
    IF labels = <<>>
    THEN [path |-> Absolute(output_dir), train |-> "train/images", val |-> "val/images",
          nc |-> 1, names |-> [i \in {0} |-> "object"]]
    ELSE [path |-> Absolute(output_dir), train |-> "train/images", val |-> "val/images",
          nc |-> Len(labels), names |-> [i \in 0..(Len(labels) - 1) |-> labels[i + 1]]]

_create_yolo_yaml(output_dir, labels) ==
    [path |-> Absolute(output_dir), train |-> "train/images", val |-> "val/images",
     nc |-> Len(labels), names |-> [i \in 0..(Len(labels) - 1) |-> labels[i + 1]]]

\* int(len(images) * train_split), train_split in tenths
SplitIdx(n, train_split) == (n * train_split) \div 10

\* images[:k] and images[k:]
Take(s, k) == SubSeq(s, 1, IF k < Len(s) THEN k ELSE Len(s))
Drop(s, k) == SubSeq(s, (IF k < Len(s) THEN k ELSE Len(s)) + 1, Len(s))

\* the parameters of export_yolo besides output_dir
YoloParams == {"train_split"}

\* what export_yolo writes under output_dir
YoloTree(output_dir, train_split) ==
    LET imgs == list_images
        split_idx == SplitIdx(Len(imgs), train_split)
        train_files == Take(imgs, split_idx)
        val_files == Drop(imgs, split_idx)
        labels == _get_all_labels
    IN [train_images |-> YoloImages(train_files),
        train_labels |-> YoloLabels(train_files, labels),
        val_images |-> YoloImages(val_files),
        val_labels |-> YoloLabels(val_files, labels),
        dirs |-> {"train/images", "train/labels", "val/images", "val/labels"},
        yaml |-> _create_yolo_yaml(output_dir, labels)]

\* the output_dir a caller of the directory export passes
OutputDir == <<"out", "yolo">>

export_yolo(train_split, extra) ==
    IF ~(extra \subseteq YoloParams)
    THEN /\ last' = Call("export_yolo", [train_split |-> train_split, extra |-> extra],
                         "rejected", FALSE, "TypeError")
         /\ UNCHANGED <<images, annotations, uuid, zips, pc, projects, now, session>>
    ELSE /\ last' = Call("export_yolo", [train_split |-> train_split, extra |-> extra],
                         "written", TRUE, YoloTree(OutputDir, train_split))
         /\ UNCHANGED <<images, annotations, uuid, zips, pc, projects, now, session>>

\* a COCO box whose corner is clamped to the image like the VOC corners
CocoBBoxClamped(bbox, W, H) ==
    <<IF 2 * bbox.x >= bbox.width THEN (2 * bbox.x - bbox.width) * W ELSE 0,
      IF 2 * bbox.y >= bbox.height THEN (2 * bbox.y - bbox.height) * H ELSE 0,
      2 * bbox.width * W,
      2 * bbox.height * H>>

\* [x_min, y_min, width_px, height_px] of export_coco, in 1/2000 of a pixel
CocoBBox(bbox, W, H) ==
    <<(2 * bbox.x - bbox.width) * W,
      (2 * bbox.y - bbox.height) * H,
      2 * bbox.width * W,
      2 * bbox.height * H>>

\* width_px * height_px in 1/100 of a square pixel: the two sizes in tenths
\* of a pixel (whole numbers for boxes in hundredths on the sizes of ImageSize)
CocoArea(bbox, W, H) == ((bbox.width * W) \div 100) * ((bbox.height * H) \div 100)

\* the entries export_coco appends for the image with enumerate index img_id
RECURSIVE CocoWalk(_, _, _, _, _)
CocoWalk(imgs, labels, img_id, images_data, annotations_data) ==
    IF img_id >= Len(imgs) THEN [images |-> images_data, annotations |-> annotations_data]
    ELSE LET filename == imgs[img_id + 1]
             anns == get_annotations(filename)
         IN IF ~HasRecord(filename)
            THEN CocoWalk(imgs, labels, img_id + 1, images_data, annotations_data)
            ELSE LET metadata == _load_metadata(filename)
                     W == metadata.image.width
                     H == metadata.image.height
                     entry == [id |-> img_id, file_name |-> filename,
                               width |-> W, height |-> H]
                     rows == [k \in 1..Len(anns) |->
                                [id |-> Len(annotations_data) + k,
                                 image_id |-> img_id,
                                 category_id |-> IndexOf(labels, anns[k].label),
                                 bbox |-> CocoBBox(anns[k].bbox, W, H),
                                 area |-> CocoArea(anns[k].bbox, W, H),
                                 iscrowd |-> 0]]
                 IN CocoWalk(imgs, labels, img_id + 1,
                             Append(images_data, entry), annotations_data \o rows)

export_coco ==
    LET labels == _get_all_labels
        categories == [i \in 1..Len(labels) |->
                         [id |-> i - 1, name |-> labels[i], supercategory |-> "product"]]
        walk == CocoWalk(list_images, labels, 0, <<>>, <<>>)
    IN /\ last' = Call("export_coco", <<>>, "written", TRUE,
              [images |-> walk.images, annotations |-> walk.annotations,
               categories |-> categories])
       /\ UNCHANGED <<images, annotations, uuid, zips, pc, projects, now, session>>

\* int(): truncation toward zero of n / d, d > 0
Trunc(n, d) == IF n >= 0 THEN n \div d ELSE -((-n) \div d)

Max2(a, b) == IF a >= b THEN a ELSE b
Min2(a, b) == IF a <= b THEN a ELSE b

\* int((c -/+ size / 2) * dim) for a centre c and a size in thousandths
CornerMin(c, size, dim) == Trunc((2 * c - size) * dim, 2000)
CornerMax(c, size, dim) == Trunc((2 * c + size) * dim, 2000)

\* corners that are written as truncated, without max(0, .) and min(dim, .)
ClampedCornersRaw(bbox, W, H) ==
    [x_min |-> CornerMin(bbox.x, bbox.width, W),
     y_min |-> CornerMin(bbox.y, bbox.height, H),
     x_max |-> CornerMax(bbox.x, bbox.width, W),
     y_max |-> CornerMax(bbox.y, bbox.height, H)]

\* the corners export_pascal_voc and export_csv write
ClampedCorners(bbox, W, H) ==
    [x_min |-> Max2(0, CornerMin(bbox.x, bbox.width, W)),
     y_min |-> Max2(0, CornerMin(bbox.y, bbox.height, H)),
     x_max |-> Min2(W, CornerMax(bbox.x, bbox.width, W)),
     y_max |-> Min2(H, CornerMax(bbox.y, bbox.height, H))]

\* the listed images export_pascal_voc does not skip
VocImages == { f \in Range(list_images) : HasRecord(f) /\ get_image_path(f) # <<>> }

\* the <object> elements of one XML document
VocObjects(f) ==
    LET anns == get_annotations(f)
        metadata == _load_metadata(f)
    IN [k \in 1..Len(anns) |->
          [name |-> anns[k].label, pose |-> "Unspecified", truncated |-> 0,
           difficult |-> 0,
           bndbox |-> ClampedCorners(anns[k].bbox, metadata.image.width,
                                     metadata.image.height)]]

\* what export_pascal_voc writes under output_dir
VocTree ==
    LET imgs == list_images
        xml == [st \in { Stem(f) : f \in VocImages } |->
                  LET f == imgs[CHOOSE i \in 1..Len(imgs) :
                                  /\ Stem(imgs[i]) = st /\ imgs[i] \in VocImages
                                  /\ \A j \in (i + 1)..Len(imgs) :
                                        ~(Stem(imgs[j]) = st /\ imgs[j] \in VocImages)]
                      metadata == _load_metadata(f)
                  IN [folder |-> "JPEGImages", filename |-> f,
                      width |-> metadata.image.width, height |-> metadata.image.height,
                      depth |-> 3, segmented |-> 0, objects |-> VocObjects(f)]]
    IN [JPEGImages |-> VocImages, Annotations |-> xml]

\* an export that moves the image files into JPEGImages instead of copying
export_pascal_vocMoving ==
    /\ last' = Call("export_pascal_voc", <<>>, "written", TRUE, VocTree)
    /\ images' = [f \in DOMAIN images \ VocImages |-> images[f]]
    /\ UNCHANGED <<annotations, uuid, zips, pc, projects, now, session>>

export_pascal_voc ==
    /\ last' = Call("export_pascal_voc", <<>>, "written", TRUE, VocTree)
    /\ UNCHANGED <<images, annotations, uuid, zips, pc, projects, now, session>>

\* round(v, 2) of v = n / 1000, in hundredths (ties to even)
Round2(n) ==
    LET q == n \div 10
        r == n % 10
    IN IF r > 5 \/ (r = 5 /\ q % 2 = 1) THEN q + 1 ELSE q

\* the entry export_createml appends for one image
CreatemlEntry(f) ==
    LET anns == get_annotations(f)
        metadata == _load_metadata(f)
        W == metadata.image.width
        H == metadata.image.height
    IN [image |-> f,
        annotations |-> [k \in 1..Len(anns) |->
            [label |-> anns[k].label,
             coordinates |-> [x |-> Round2(anns[k].bbox.x * W),
                              y |-> Round2(anns[k].bbox.y * H),
                              width |-> Round2(anns[k].bbox.width * W),
                              height |-> Round2(anns[k].bbox.height * H)]]]]

export_createml ==
    LET HasMetadata(f) == HasRecord(f)
        kept == SelectSeq(list_images, HasMetadata)
    IN /\ last' = Call("export_createml", <<>>, "written", TRUE,
              [k \in 1..Len(kept) |-> CreatemlEntry(kept[k])])
       /\ UNCHANGED <<images, annotations, uuid, zips, pc, projects, now, session>>

\* the rows export_csv writes for one image
CsvRows(f) ==
    LET anns == get_annotations(f)
        metadata == _load_metadata(f)
        W == metadata.image.width
        H == metadata.image.height
    IN [k \in 1..Len(anns) |->
          LET c == ClampedCorners(anns[k].bbox, W, H)
          IN [filename |-> f, label |-> anns[k].label,
              x_min |-> c.x_min, y_min |-> c.y_min, x_max |-> c.x_max, y_max |-> c.y_max,
              image_width |-> W, image_height |-> H]]

RECURSIVE CsvWalk(_, _)
CsvWalk(imgs, rows) ==
    IF imgs = <<>> THEN rows
    ELSE IF ~HasRecord(Head(imgs)) THEN CsvWalk(Tail(imgs), rows)
         ELSE CsvWalk(Tail(imgs), rows \o CsvRows(Head(imgs)))

CsvHeader ==
    <<"filename", "label", "x_min", "y_min", "x_max", "y_max", "image_width", "image_height">>

export_csv ==
    /\ last' = Call("export_csv", <<>>, "written", TRUE,
           [header |-> CsvHeader, rows |-> CsvWalk(list_images, <<>>)])
    /\ UNCHANGED <<images, annotations, uuid, zips, pc, projects, now, session>>

\* the requests that may run a zip export at the same time
Requests == {1, 2}

\* a request that is running no zip export
Idle == [stage |-> "idle", zip |-> "", files |-> {}, done |-> {}, yaml |-> <<>>]

\* a file of an export tree, by its path relative to the export directory
Entry(dir, stem, ext) == [dir |-> dir, stem |-> stem, ext |-> ext]

DataYaml == Entry("", [base |-> "data", sfx |-> <<>>], "yaml")

\* export_dir.rglob("*") over the tree of export_yolo
YoloEntries(tree) ==
    {DataYaml}
    \cup { Entry("train/images", Stem(f), f.ext) : f \in tree.train_images }
    \cup { Entry("train/labels", st, "txt") : st \in DOMAIN tree.train_labels }
    \cup { Entry("val/images", Stem(f), f.ext) : f \in tree.val_images }
    \cup { Entry("val/labels", st, "txt") : st \in DOMAIN tree.val_labels }

\* export_dir.rglob("*") over the tree of export_pascal_voc
VocEntries(tree) ==
    { Entry("JPEGImages", Stem(f), f.ext) : f \in tree.JPEGImages }
    \cup { Entry("Annotations", st, "xml") : st \in DOMAIN tree.Annotations }

\* tempfile.TemporaryDirectory(): a directory of the request alone
TempDir(r) == <<"/", "tmp", IF r = 1 THEN "tmp_1" ELSE "tmp_2">>

\* annotation_service.data_dir / "<format>_export.zip"
ZipPath(zip) == <<"data", zip>>

\* export_yolo_zip up to the end of export_yolo(export_dir, train_split)
export_yolo_zip(r, train_split) ==
    /\ pc[r].stage = "idle"
    /\ LET tree == YoloTree(TempDir(r) \o <<"yolo_dataset">>, train_split)
       IN pc' = [pc EXCEPT ![r] = [stage |-> "exported", zip |-> "yolo_export.zip",
                                   files |-> YoloEntries(tree), done |-> {},
                                   yaml |-> <<tree.yaml>>]]
    /\ UNCHANGED <<images, annotations, uuid, last, zips, projects, now, session>>

\* export_pascal_voc_zip up to the end of export_pascal_voc(export_dir)
export_pascal_voc_zip(r) ==
    /\ pc[r].stage = "idle"
    /\ pc' = [pc EXCEPT ![r] = [stage |-> "exported", zip |-> "pascal_voc_export.zip",
                                files |-> VocEntries(VocTree), done |-> {},
                                yaml |-> <<>>]]
    /\ UNCHANGED <<images, annotations, uuid, last, zips, projects, now, session>>

\* zipfile.ZipFile(zip_path, "w"): the file at zip_path is created or truncated
zip_open(r) ==
    /\ pc[r].stage = "exported"
    /\ pc' = [pc EXCEPT ![r].stage = "writing"]
    /\ zips' = [z \in DOMAIN zips \cup {pc[r].zip} |->
                  IF z = pc[r].zip THEN [entries |-> {}, yaml |-> <<>>, closed |-> FALSE]
                  ELSE zips[z]]
    /\ UNCHANGED <<images, annotations, uuid, last, projects, now, session>>

\* rglob yields the files in the order of the directory listing, which is
\* fixed for a tree and not specified: some fixed order
NextFile(todo) == CHOOSE e \in todo : TRUE

\* zipf.write(file_path, arcname) for the next file of the tree
zip_write(r) ==
    /\ pc[r].stage = "writing"
    /\ pc[r].files # pc[r].done
    /\ LET e == NextFile(pc[r].files \ pc[r].done)
       IN /\ pc' = [pc EXCEPT ![r].done = @ \cup {e}]
          /\ zips' = [zips EXCEPT ![pc[r].zip] =
                        [entries |-> @.entries \cup {[by |-> r, name |-> e]},
                         yaml |-> IF e = DataYaml THEN pc[r].yaml ELSE @.yaml,
                         closed |-> FALSE]]
    /\ UNCHANGED <<images, annotations, uuid, last, projects, now, session>>

\* the end of both with blocks: the archive is closed, the temporary
\* directory removed and zip_path returned
zip_close(r) ==
    /\ pc[r].stage = "writing"
    /\ pc[r].files = pc[r].done
    /\ zips' = [zips EXCEPT ![pc[r].zip].closed = TRUE]
    /\ last' = Call(IF pc[r].zip = "yolo_export.zip" THEN "export_yolo_zip"
                    ELSE "export_pascal_voc_zip",
                    [request |-> r, zip |-> pc[r].zip], "written", TRUE,
                    [path |-> ZipPath(pc[r].zip), files |-> pc[r].files])
    /\ pc' = [pc EXCEPT ![r] = Idle]
    /\ UNCHANGED <<images, annotations, uuid, projects, now, session>>

\* an OSError of the file system while the tree is zipped: the with blocks
\* close the archive as far as written, remove the temporary directory and
\* the exception reaches the caller
zip_fail(r) ==
    /\ pc[r].stage \in {"exported", "writing"}
    /\ zips' = IF pc[r].stage = "writing"
               THEN [zips EXCEPT ![pc[r].zip].closed = TRUE]
               ELSE zips
    /\ last' = Call(IF pc[r].zip = "yolo_export.zip" THEN "export_yolo_zip"
                    ELSE "export_pascal_voc_zip",
                    [request |-> r, zip |-> pc[r].zip], "failed", FALSE, "OSError")
    /\ pc' = [pc EXCEPT ![r] = Idle]
    /\ UNCHANGED <<images, annotations, uuid, projects, now, session>>

(***************************************************************************)
(* ProjectService.  projects is the tree under base_dir: a directory per   *)
(* project id with project.json (meta, absent or one Project), images/ and *)
(* annotations/.  now is the clock datetime.now() reads, in ticks.         *)
(***************************************************************************)
ProjectNames == {<<"a">>, <<"A">>, <<"a", " ">>, <<"a", "_">>}

\* clock reads that fit in one second, the resolution of "%Y%m%d_%H%M%S"
TicksPerSecond == 4

\* sanitized[:50]
NameLimit == 50

\* str.lower(), str.isalnum() on one character
LowerChar(c) == IF c = "A" THEN "a" ELSE c
IsAlnum(c) == c \in {"a", "A"}

SanitizeName(name) ==
    [i \in 1..Len(name) |->
        LET c == LowerChar(name[i])
        IN IF IsAlnum(c) \/ c \in {"-", "_"} THEN c ELSE "_"]

\* datetime.now().strftime("%Y%m%d_%H%M%S") at tick t
Timestamp(t) == t \div TicksPerSecond

_generate_project_id(name, t) ==
    [name |-> Take(SanitizeName(name), NameLimit), timestamp |-> Timestamp(t)]

_get_project_dir(project_id) == project_id

ProjectDirExists(project_id) == _get_project_dir(project_id) \in DOMAIN projects

_load_project_meta(project_id) ==
    IF ProjectDirExists(project_id) THEN projects[project_id].meta ELSE <<>>

\* project.json of the project is overwritten
_save_project_meta(tree, project) ==
    [q \in DOMAIN tree \cup {project.id} |->
        IF q = project.id
        THEN IF q \in DOMAIN tree THEN [tree[q] EXCEPT !.meta = <<project>>]
             ELSE [meta |-> <<project>>, images |-> {}, annotations |-> <<>>]
        ELSE tree[q]]

\* the counters read from project.json as stored
_stored_project_stats(project_id) ==
    IF _load_project_meta(project_id) = <<>> THEN [image_count |-> 0, annotation_count |-> 0]
    ELSE [image_count |-> _load_project_meta(project_id)[1].image_count,
          annotation_count |-> _load_project_meta(project_id)[1].annotation_count]

_count_project_stats(project_id) ==
    IF ~ProjectDirExists(project_id) THEN [image_count |-> 0, annotation_count |-> 0]
    ELSE LET dir == projects[project_id]
         IN [image_count |->
                Cardinality({ f \in dir.images : Lower(f.ext) \in ImageExtensions }),
             annotation_count |->
                Cardinality(UNION { {q} \X (1..Len(dir.annotations[q]))
                                    : q \in DOMAIN dir.annotations })]

\* the project of project.json with the counters counted now
Counted(project) ==
    [project EXCEPT !.image_count = _count_project_stats(project.id).image_count,
                    !.annotation_count = _count_project_stats(project.id).annotation_count]

\* a sort by last_opened, oldest first
RECURSIVE SortedOldestFirst(_)
SortedOldestFirst(P) ==
    IF P = {} THEN <<>>
    ELSE LET m == CHOOSE x \in P : \A y \in P : x.last_opened <= y.last_opened
         IN <<m>> \o SortedOldestFirst(P \ {m})

\* projects.sort(key=lambda p: p.last_opened, reverse=True)
RECURSIVE SortedByLastOpened(_)
SortedByLastOpened(P) ==
    IF P = {} THEN <<>>
    ELSE LET m == CHOOSE x \in P : \A y \in P : x.last_opened >= y.last_opened
         IN <<m>> \o SortedByLastOpened(P \ {m})

list_projects ==
    /\ last' = Call("list_projects", <<>>, "done", TRUE,
           SortedByLastOpened({ Counted(projects[q].meta[1]) :
                                  q \in { d \in DOMAIN projects : projects[d].meta # <<>> } }))
    /\ UNCHANGED <<images, annotations, uuid, zips, pc, projects, now, session>>

\* the clock is read twice: for the id, then for created_at and last_opened
create_project(name) ==
    LET project_id == _generate_project_id(name, now)
        project == [id |-> project_id, name |-> name, created_at |-> now + 1,
                    last_opened |-> now + 1, image_count |-> 0, annotation_count |-> 0]
    IN /\ projects' = _save_project_meta(projects, project)
       /\ now' = now + 2
       /\ last' = Call("create_project", [name |-> name],
                       IF ProjectDirExists(project_id) THEN "existing_dir" ELSE "new_dir",
                       TRUE, project)
       /\ UNCHANGED <<images, annotations, uuid, zips, pc, session>>

get_project(project_id) ==
    /\ last' = Call("get_project", [project_id |-> project_id],
                    IF _load_project_meta(project_id) = <<>> THEN "not_found" ELSE "found",
                    TRUE,
                    IF _load_project_meta(project_id) = <<>> THEN <<>>
                    ELSE <<Counted(_load_project_meta(project_id)[1])>>)
    /\ UNCHANGED <<images, annotations, uuid, zips, pc, projects, now, session>>

open_project(project_id) ==
    IF _load_project_meta(project_id) = <<>>
    THEN /\ last' = Call("open_project", [project_id |-> project_id], "not_found", TRUE, <<>>)
         /\ UNCHANGED <<images, annotations, uuid, zips, pc, projects, now, session>>
    ELSE LET project == Counted([_load_project_meta(project_id)[1]
                                   EXCEPT !.last_opened = now])
         IN /\ projects' = _save_project_meta(projects, project)
            /\ now' = now + 1
            /\ last' = Call("open_project", [project_id |-> project_id], "found", TRUE,
                            <<project>>)
            /\ UNCHANGED <<images, annotations, uuid, zips, pc, session>>

\* shutil.rmtree(project_dir)
delete_project(project_id) ==
    /\ projects' = [q \in DOMAIN projects \ {project_id} |-> projects[q]]
    /\ last' = Call("delete_project", [project_id |-> project_id],
                    IF ProjectDirExists(project_id) THEN "removed" ELSE "not_found",
                    TRUE, ProjectDirExists(project_id))
    /\ UNCHANGED <<images, annotations, uuid, zips, pc, now, session>>

get_project_data_dir(project_id) ==
    /\ last' = Call("get_project_data_dir", [project_id |-> project_id], "done", TRUE,
                    IF ProjectDirExists(project_id) THEN <<_get_project_dir(project_id)>>
                    ELSE <<>>)
    /\ UNCHANGED <<images, annotations, uuid, zips, pc, projects, now, session>>

\* time passes
tick ==
    /\ now' = now + 1
    /\ UNCHANGED <<images, annotations, uuid, last, zips, pc, projects, session>>

\* AnnotationService(data_dir).upload_image in the directory of a project:
\* the image file and a record without annotations
project_upload_image(project_id, f) ==
    /\ ProjectDirExists(project_id)
    /\ f \notin projects[project_id].images
    /\ projects' = [projects EXCEPT ![project_id] =
          [@ EXCEPT !.images = @ \cup {f},
                    !.annotations = [q \in DOMAIN @ \cup {Stem(f)} |->
                                        IF q = Stem(f) THEN <<>> ELSE @[q]]]]
    /\ last' = Call("upload_image", [project_id |-> project_id, filename |-> f],
                    "stored", TRUE, f)
    /\ UNCHANGED <<images, annotations, uuid, zips, pc, now, session>>

\* AnnotationService(data_dir).add_annotation on a record of a project
project_add_annotation(project_id, f, label) ==
    /\ ProjectDirExists(project_id)
    /\ Stem(f) \in DOMAIN projects[project_id].annotations
    /\ projects' = [projects EXCEPT ![project_id].annotations[Stem(f)] = Append(@, label)]
    /\ last' = Call("add_annotation", [project_id |-> project_id, filename |-> f],
                    "loaded", TRUE, label)
    /\ UNCHANGED <<images, annotations, uuid, zips, pc, now, session>>

\* AnnotationService(data_dir).delete_image in the directory of a project
project_delete_image(project_id, f) ==
    /\ ProjectDirExists(project_id)
    /\ projects' = [projects EXCEPT ![project_id] =
          [@ EXCEPT !.images = @ \ {f},
                    !.annotations = [q \in DOMAIN @ \ {Stem(f)} |-> @[q]]]]
    /\ last' = Call("delete_image", [project_id |-> project_id, filename |-> f], "done",
                    TRUE, f \in projects[project_id].images
                          \/ Stem(f) \in DOMAIN projects[project_id].annotations)
    /\ UNCHANGED <<images, annotations, uuid, zips, pc, now, session>>

\* get_annotation_service up to data_dir = get_project_data_dir(project_id),
\* for a project whose directory exists
get_annotation_service(r, project_id) ==
    /\ pc[r].stage = "idle"
    /\ ProjectDirExists(project_id)
    /\ pc' = [pc EXCEPT ![r] = [stage |-> "resolved",
                                data_dir |-> _get_project_dir(project_id)]]
    /\ UNCHANGED <<images, annotations, uuid, last, zips, projects, now, session>>

\* the rest of get_annotation_service: AnnotationService(data_dir), whose
\* _ensure_directories makes data_dir, images/ and annotations/ when missing
AnnotationService(r) ==
    /\ pc[r].stage = "resolved"
    /\ projects' = IF ProjectDirExists(pc[r].data_dir) THEN projects
                   ELSE [q \in DOMAIN projects \cup {pc[r].data_dir} |->
                           IF q = pc[r].data_dir
                           THEN [meta |-> <<>>, images |-> {}, annotations |-> <<>>]
                           ELSE projects[q]]
    /\ last' = Call("get_annotation_service", [project_id |-> pc[r].data_dir],
                    IF ProjectDirExists(pc[r].data_dir) THEN "existing_dir" ELSE "made_dir",
                    TRUE, <<pc[r].data_dir>>)
    /\ pc' = [pc EXCEPT ![r] = Idle]
    /\ UNCHANGED <<images, annotations, uuid, zips, now, session>>

(***************************************************************************)
(* Two requests on one record file.  _save_metadata is open(path, "w"),    *)
(* which empties the file, and a write of the whole document from offset 0 *)
(* when the file is closed; a file that is not one document is kept as     *)
(* [head, tail]: the document written last and the longer one whose end    *)
(* still follows it.                                                       *)
(***************************************************************************)
\* len(json.dumps(metadata.model_dump(), indent=2))
Size(metadata) ==
    LET Digits(n) == IF n < 10 THEN 1 ELSE IF n < 100 THEN 2 ELSE 3
        FloatLen(v) == IF v % 100 = 0 THEN 3 ELSE IF v % 10 = 0 THEN 4 ELSE 5
        AnnBytes(ann) == 196 + Len(Chars(ann.label)) + Digits(ann.class_id)
                           + FloatLen(ann.bbox.x) + FloatLen(ann.bbox.y)
                           + FloatLen(ann.bbox.width) + FloatLen(ann.bbox.height)
        Sum[i \in 0..Len(metadata.annotations)] ==
            IF i = 0 THEN 0 ELSE Sum[i - 1] + AnnBytes(metadata.annotations[i])
    IN 103 + Len(Render(metadata.image.filename))
           + Digits(metadata.image.width) + Digits(metadata.image.height)
           + (IF metadata.done THEN 4 ELSE 5)
           + (IF metadata.annotations = <<>> THEN 0 ELSE 2 + Sum[Len(metadata.annotations)])

\* json.load of a record file: the document, or <<>> for the JSONDecodeError
json_load(file) == IF "image" \in DOMAIN file THEN <<file>> ELSE <<>>

\* the file after a document is written from offset 0 over what is there
WrittenOver(file, metadata) ==
    LET there == IF json_load(file) # <<>> THEN <<file>> ELSE file.tail
    IN IF there = <<>> \/ Size(there[1]) <= Size(metadata) THEN metadata
       ELSE [head |-> <<metadata>>, tail |-> there]

\* add_annotation up to the append to the loaded metadata
add_annotation_load(r, f, create) ==
    /\ pc[r] = Idle
    /\ IF ~HasRecord(f) /\ ~Exists(f)
       THEN /\ last' = Call("add_annotation", [filename |-> f], "not_found",
                            FALSE, "FileNotFoundError")
            /\ UNCHANGED <<pc, uuid>>
       ELSE IF HasRecord(f) /\ json_load(_load_metadata(f)) = <<>>
       THEN /\ last' = Call("add_annotation", [filename |-> f], "undecodable",
                            FALSE, "JSONDecodeError")
            /\ UNCHANGED <<pc, uuid>>
       ELSE LET metadata == IF HasRecord(f) THEN _load_metadata(f)
                            ELSE MaterializedMetadata(f)
                new_annotation == [id |-> NewId(1), label |-> create.label,
                                   class_id |-> create.class_id, bbox |-> create.bbox]
            IN /\ pc' = [pc EXCEPT ![r] =
                     [stage |-> "loaded", op |-> "add_annotation", filename |-> f,
                      metadata |-> [metadata EXCEPT !.annotations = Append(@, new_annotation)],
                      ret |-> new_annotation]]
               /\ uuid' = uuid + 1
               /\ UNCHANGED last
    /\ UNCHANGED <<images, annotations, zips, projects, now, session>>

\* mark_image_done up to metadata.done = done
mark_image_done_load(r, f, done) ==
    /\ pc[r] = Idle
    /\ IF ~HasRecord(f)
       THEN /\ last' = Call("mark_image_done", [filename |-> f, done |-> done],
                            "no_record", TRUE, FALSE)
            /\ UNCHANGED pc
       ELSE IF json_load(_load_metadata(f)) = <<>>
       THEN /\ last' = Call("mark_image_done", [filename |-> f, done |-> done],
                            "undecodable", FALSE, "JSONDecodeError")
            /\ UNCHANGED pc
       ELSE /\ pc' = [pc EXCEPT ![r] =
                  [stage |-> "loaded", op |-> "mark_image_done", filename |-> f,
                   metadata |-> [_load_metadata(f) EXCEPT !.done = done],
                   ret |-> TRUE]]
            /\ UNCHANGED last
    /\ UNCHANGED <<images, annotations, uuid, zips, projects, now, session>>

\* _save_metadata: annotation_path.open("w") leaves an empty file
save_open(r) ==
    /\ pc[r].stage = "loaded"
    /\ annotations' = [q \in DOMAIN annotations \cup {_get_annotation_path(pc[r].filename)} |->
                          IF q = _get_annotation_path(pc[r].filename)
                          THEN [head |-> <<>>, tail |-> <<>>]
                          ELSE annotations[q]]
    /\ pc' = [pc EXCEPT ![r].stage = "opened"]
    /\ UNCHANGED <<images, uuid, last, zips, projects, now, session>>

\* _save_metadata: the document reaches the file when the with block closes
\* it, and the operation returns
save_close(r) ==
    /\ pc[r].stage = "opened"
    /\ annotations' = [annotations EXCEPT ![_get_annotation_path(pc[r].filename)] =
                          WrittenOver(@, pc[r].metadata)]
    /\ last' = Call(pc[r].op, [filename |-> pc[r].filename], "saved", TRUE, pc[r].ret)
    /\ pc' = [pc EXCEPT ![r] = Idle]
    /\ UNCHANGED <<images, uuid, zips, projects, now, session>>

(***************************************************************************)
(* An export taken image by image, so that the store can change between    *)
(* the label list and the images: export_yolo and export_coco compute the  *)
(* labels and the image list first and read each record when its turn      *)
(* comes.  rows are the annotations emitted: label, stored class_id and    *)
(* the numeric id written.                                                 *)
(***************************************************************************)
\* labels = self._get_all_labels() and the images to walk
export_begin(r, format) ==
    /\ pc[r] = Idle
    /\ pc' = [pc EXCEPT ![r] = [stage |-> "exporting", format |-> format,
                                labels |-> _get_all_labels, todo |-> list_images,
                                rows |-> <<>>]]
    /\ UNCHANGED <<images, annotations, uuid, last, zips, projects, now, session>>

\* the turn of the next image: _export_yolo_image, or the body of the loop
\* of export_coco, whose labels.index raises ValueError for a label that is
\* not in the list
export_image(r) ==
    /\ pc[r].stage = "exporting" /\ pc[r].todo # <<>>
    /\ LET f == Head(pc[r].todo)
           anns == get_annotations(f)
           skipped == IF pc[r].format = "export_yolo" THEN get_image_path(f) = <<>>
                      ELSE ~HasRecord(f)
           rows == [k \in 1..Len(anns) |->
                      [filename |-> f, label |-> anns[k].label,
                       class_id |-> anns[k].class_id,
                       written |-> IF pc[r].format = "export_yolo"
                                   THEN ClassIdOf(pc[r].labels, anns[k])
                                   ELSE IndexOf(pc[r].labels, anns[k].label)]]
       IN IF skipped
          THEN /\ pc' = [pc EXCEPT ![r].todo = Tail(@)]
               /\ UNCHANGED last
          ELSE IF /\ pc[r].format = "export_coco"
                  /\ \E k \in 1..Len(anns) : anns[k].label \notin Range(pc[r].labels)
          THEN /\ pc' = [pc EXCEPT ![r] = Idle]
               /\ last' = Call(pc[r].format, [labels |-> pc[r].labels], "label_missing",
                               FALSE, "ValueError")
          ELSE /\ pc' = [pc EXCEPT ![r].todo = Tail(@), ![r].rows = @ \o rows]
               /\ UNCHANGED last
    /\ UNCHANGED <<images, annotations, uuid, zips, projects, now, session>>

\* every image had its turn: the files are written and the export returns
export_end(r) ==
    /\ pc[r].stage = "exporting" /\ pc[r].todo = <<>>
    /\ last' = Call(pc[r].format, [labels |-> pc[r].labels], "written", TRUE, pc[r].rows)
    /\ pc' = [pc EXCEPT ![r] = Idle]
    /\ UNCHANGED <<images, annotations, uuid, zips, projects, now, session>>

(***************************************************************************)
(* BrowserSessionService.  Tokens are sequences of code points; now counts *)
(* half seconds, the wait of one run_monitor iteration.                    *)
(***************************************************************************)
\* "", "t", "x" and a token with a character outside ASCII
SessionTokens == {<<>>, <<116>>, <<120>>, <<233>>}

\* inactivity_timeout_seconds, close_grace_seconds, startup_timeout_seconds
\* as configured, in half seconds
inactivity_timeout_seconds == 4
close_grace_seconds == 3
startup_timeout_seconds == 6

\* no BrowserSessionService is constructed
NoSession ==
    [token |-> <<>>, _started_at |-> 0, _last_heartbeat_at |-> <<>>,
     _close_requested_at |-> <<>>, _shutdown_triggered |-> FALSE,
     callbacks |-> 0, monitor |-> "none"]

IsAscii(s) == \A i \in 1..Len(s) : s[i] < 128

\* secrets.compare_digest on two str: <<equal>>, or <<>> for the TypeError
\* it raises when a string has a character outside ASCII
compare_digest(a, b) == IF IsAscii(a) /\ IsAscii(b) THEN <<a = b>> ELSE <<>>

\* bool(token) and secrets.compare_digest(token, self.token)
_is_valid_token(token) ==
    IF token = <<>> THEN <<FALSE>> ELSE compare_digest(token, session.token)

\* lifespan: the service is constructed and the monitor thread started
lifespan(token) ==
    /\ session = NoSession
    /\ session' = [token |-> token, _started_at |-> now, _last_heartbeat_at |-> <<>>,
                   _close_requested_at |-> <<>>, _shutdown_triggered |-> FALSE,
                   callbacks |-> 0, monitor |-> "running"]
    /\ last' = Call("lifespan", [token |-> token], "done", TRUE, TRUE)
    /\ UNCHANGED <<images, annotations, uuid, zips, pc, projects, now>>

record_heartbeat(token) ==
    /\ session # NoSession
    /\ IF _is_valid_token(token) = <<>>
       THEN /\ last' = Call("record_heartbeat", [token |-> token], "raised", FALSE, "TypeError")
            /\ UNCHANGED session
       ELSE IF ~_is_valid_token(token)[1]
       THEN /\ last' = Call("record_heartbeat", [token |-> token], "invalid", TRUE, FALSE)
            /\ UNCHANGED session
       ELSE /\ session' = [session EXCEPT !._last_heartbeat_at = <<now>>,
                                           !._close_requested_at = <<>>]
            /\ last' = Call("record_heartbeat", [token |-> token], "recorded", TRUE, TRUE)
    /\ UNCHANGED <<images, annotations, uuid, zips, pc, projects, now>>

record_close(token) ==
    /\ session # NoSession
    /\ IF _is_valid_token(token) = <<>>
       THEN /\ last' = Call("record_close", [token |-> token], "raised", FALSE, "TypeError")
            /\ UNCHANGED session
       ELSE IF ~_is_valid_token(token)[1]
       THEN /\ last' = Call("record_close", [token |-> token], "invalid", TRUE, FALSE)
            /\ UNCHANGED session
       ELSE /\ session' = [session EXCEPT !._close_requested_at = <<now>>]
            /\ last' = Call("record_close", [token |-> token], "recorded", TRUE, TRUE)
    /\ UNCHANGED <<images, annotations, uuid, zips, pc, projects, now>>

\* _should_shutdown at time t: the result and whether _shutdown_triggered is set
_should_shutdown(s, t) ==
    IF s._shutdown_triggered THEN FALSE
    ELSE IF s._close_requested_at # <<>>
    THEN t - s._close_requested_at[1] >= close_grace_seconds
    ELSE IF s._last_heartbeat_at = <<>>
    THEN t - s._started_at >= startup_timeout_seconds
    ELSE t - s._last_heartbeat_at[1] >= inactivity_timeout_seconds

\* one iteration of run_monitor after stop_event.wait timed out
run_monitor ==
    /\ session.monitor = "running"
    /\ session' = IF _should_shutdown(session, now)
                  THEN [session EXCEPT !._shutdown_triggered = TRUE,
                                       !.callbacks = @ + 1,
                                       !.monitor = "returned"]
                  ELSE session
    /\ last' = Call("run_monitor", [now |-> now],
                    IF _should_shutdown(session, now) THEN "shutdown" ELSE "waiting",
                    TRUE, _should_shutdown(session, now))
    /\ UNCHANGED <<images, annotations, uuid, zips, pc, projects, now>>

Init ==
    /\ images = <<>>
    /\ annotations = <<>>
    /\ uuid = 0
    /\ last = Call("init", <<>>, "done", TRUE, TRUE)
    /\ zips = <<>>
    /\ pc = [r \in Requests |-> Idle]
    /\ projects = <<>>
    /\ now = 0
    /\ session = NoSession

StoreNames == { n \in UploadNames : n.base = "a" }
ArgNames == StoreNames \cup DOMAIN images
Ids == 1..(uuid + 1)

\* the image files and their records
Next ==
    \/ \E d \in Dirs, n \in StoreNames, c \in Contents :
          /\ Cardinality(DOMAIN images) < MaxFiles
          /\ upload_image(d, n, c)
    \/ \E f \in ArgNames : delete_image(f)
    \/ \E f \in ArgNames, d \in BOOLEAN : mark_image_done(f, d)
    \/ \E f \in ArgNames, c \in { c \in AnnotationCreate : c.label = "ant" /\ c.class_id = 1 /\ c.bbox.x = 500 } :
          /\ uuid < MaxUuid
          /\ Len(get_annotations(f)) < MaxAnns
          /\ add_annotation(f, c)

Spec == Init /\ [][Next]_vars

\* uploads and deletions of files of one base name
NextUpload ==
    \/ \E d \in Dirs, n \in { n \in StoreNames : n.ext # "gif" }, c \in Contents :
          /\ Cardinality(DOMAIN images) < UploadMaxFiles
          /\ upload_image(d, n, c)
    \/ \E f \in DOMAIN images : delete_image(f)

SpecUpload == Init /\ [][NextUpload]_vars

AnnotNames == { n \in UploadNames : n.ext = "png" }

AnnotCreates == { c \in AnnotationCreate : (c.label = "ant") = (c.class_id = 0) /\ c.bbox.x = 500 }
AnnotUpdates == { u \in AnnotationUpdate : u.label # <<"ant">> /\ u.class_id # <<0>> /\ u.bbox # <<CHOOSE b \in BBoxes : b.x = 500>> }

\* the annotation lists of two images
NextAnnot ==
    \/ \E n \in AnnotNames : n.base = "a" /\ ~Exists(n) /\ upload_image("", n, 1)
    \/ \E f \in AnnotNames, d \in BOOLEAN : mark_image_done(f, d)
    \/ \E f \in AnnotNames, c \in AnnotCreates :
          /\ uuid < AnnotMaxUuid
          /\ Len(get_annotations(f)) < AnnotMaxAnns
          /\ add_annotation(f, c)
    \/ \E f \in AnnotNames, id \in Ids, u \in AnnotUpdates : update_annotation(f, id, u)
    \/ \E f \in AnnotNames, id \in Ids : delete_annotation(f, id)
    \/ \E f \in AnnotNames : clear_annotations(f)
    \/ __init__

SpecAnnot == Init /\ [][NextAnnot]_vars

\* copies between the annotation lists of two images
NextCopy ==
    \/ \E n \in AnnotNames : ~Exists(n) /\ upload_image("", n, 1)
    \/ \E f \in AnnotNames, c \in AnnotCreates :
          /\ uuid < CopyMaxUuid
          /\ Len(get_annotations(f)) < CopyMaxAnns
          /\ add_annotation(f, c)
    \/ \E f \in AnnotNames : clear_annotations(f)
    \/ \E src \in AnnotNames, tgt \in AnnotNames :
          /\ uuid + Len(get_annotations(src)) <= CopyMaxUuid
          /\ Len(get_annotations(tgt)) + Len(get_annotations(src)) <= CopyMaxAnns
          /\ copy_annotations(src, tgt)

SpecCopy == Init /\ [][NextCopy]_vars

ExportNames == { n \in UploadNames : n.ext = "png" \/ (n.base = "a" /\ n.ext = "jpg") }
ExportCreates == { c \in AnnotationCreate : c.bbox.x = 500 /\ (c.label = "ant" => c.class_id = 1) }
ExtraArgs == { {"val_split"}, {"val_split", "shuffle", "seed"} }

\* the exports of a store
NextExport ==
    \/ \E n \in ExportNames :
          /\ Cardinality(DOMAIN images) < ExportMaxFiles
          /\ ~Exists(n)
          /\ upload_image("", n, 1)
    \/ \E f \in ExportNames : delete_image(f)
    \/ \E f \in ExportNames, d \in BOOLEAN : mark_image_done(f, d)
    \/ \E f \in ExportNames, c \in ExportCreates :
          /\ uuid < ExportMaxUuid
          /\ Len(get_annotations(f)) < ExportMaxAnns
          /\ add_annotation(f, c)
    \/ \E t \in TrainSplits : export_yolo(t, {})
    \/ \E extra \in ExtraArgs : export_yolo(8, extra)
    \/ export_coco
    \/ export_pascal_voc
    \/ export_createml
    \/ export_csv

SpecExport == Init /\ [][NextExport]_vars

ZipNames == { n \in UploadNames : n.base = "a" /\ n.ext # "gif" }
ZipCreates == { c \in AnnotationCreate : c.label = "ant" /\ c.class_id = 1 /\ c.bbox.x = 500 }

\* the two zip exports, two requests at a time
NextZip ==
    \/ \E n \in ZipNames :
          /\ Cardinality(DOMAIN images) < ZipMaxFiles
          /\ ~Exists(n)
          /\ upload_image("", n, 1)
    \/ \E f \in ZipNames, c \in ZipCreates :
          /\ uuid < ZipMaxUuid
          /\ Len(get_annotations(f)) < ZipMaxAnns
          /\ add_annotation(f, c)
    \/ export_yolo(8, {})
    \/ \E r \in Requests : export_yolo_zip(r, 8)
    \/ export_pascal_voc_zip(1)
    \/ \E r \in Requests : zip_open(r)
    \/ \E r \in Requests : zip_write(r)
    \/ \E r \in Requests : zip_close(r)
    \/ \E r \in Requests : zip_fail(r)

SpecZip == Init /\ [][NextZip]_vars

\* the five exports and the two zip exports of one request after another
NextFormats ==
    \/ \E n \in AnnotNames :
          /\ Cardinality(DOMAIN images) < FormatsMaxFiles
          /\ ~Exists(n)
          /\ upload_image("", n, 1)
    \/ \E f \in AnnotNames : f.base = "a" /\ HasRecord(f) /\ mark_image_done(f, TRUE)
    \/ \E f \in AnnotNames, c \in ZipCreates :
          /\ f.base = "a"
          /\ uuid < FormatsMaxUuid
          /\ Len(get_annotations(f)) < FormatsMaxAnns
          /\ add_annotation(f, c)
    \/ export_yolo(8, {})
    \/ export_coco
    \/ export_pascal_voc
    \/ export_createml
    \/ export_csv
    \/ export_yolo_zip(1, 8)
    \/ export_pascal_voc_zip(1)
    \/ zip_open(1)
    \/ zip_write(1)
    \/ zip_close(1)
    \/ zip_fail(1)

SpecFormats == Init /\ [][NextFormats]_vars

\* boxes at and over the edges of the image, and the box (0.5, 0.5, 0.2, 0.2)
EdgeBBoxes == [x : {0, 500, 1000}, y : {500, 750}, width : {200, 500, 1000},
               height : {200, 1000}]
BoxCreates == [label : {"ant"}, class_id : {0}, bbox : EdgeBBoxes]
BoxName == [base |-> "a", sfx |-> <<>>, ext |-> "png"]

\* the pixel geometry of the exports over one image of either size
NextBox ==
    \/ \E c \in Contents \ {0} : ~Exists(BoxName) /\ upload_image("", BoxName, c)
    \/ \E c \in BoxCreates :
          /\ uuid < BoxMaxUuid
          /\ Len(get_annotations(BoxName)) < BoxMaxAnns
          /\ add_annotation(BoxName, c)
    \/ export_coco
    \/ export_pascal_voc
    \/ export_csv

SpecBox == Init /\ [][NextBox]_vars

\* ids given to get_project, open_project, delete_project: the directories
\* that exist and one that does not
ProjectIdArgs == DOMAIN projects \cup {[name |-> <<"a">>, timestamp |-> 0]}
ProjectFiles == { n \in UploadNames : n.base = "a" /\ n.ext \in {"png", "gif"} }

\* the projects under base_dir
NextProject ==
    \/ \E name \in { n \in ProjectNames : Len(n) = 1 } :
          /\ now + 2 <= ProjMaxNow
          /\ Cardinality(DOMAIN projects) < ProjMaxProjects
             \/ ProjectDirExists(_generate_project_id(name, now))
          /\ create_project(name)
    \/ \E id \in ProjectIdArgs : get_project(id)
    \/ \E id \in ProjectIdArgs : now < ProjMaxNow /\ open_project(id)
    \/ \E id \in ProjectIdArgs : delete_project(id)
    \/ \E id \in ProjectIdArgs : get_project_data_dir(id)
    \/ list_projects
    \/ now < ProjMaxNow /\ tick
    \/ \E id \in DOMAIN projects : get_annotation_service(1, id)
    \/ AnnotationService(1)

SpecProject == Init /\ [][NextProject]_vars

\* the files of one project and its counters
NextStats ==
    \/ \E name \in { n \in ProjectNames : Len(n) = 2 } :
          /\ now + 2 <= StatsMaxNow
          /\ DOMAIN projects = {}
          /\ create_project(name)
    \/ \E id \in ProjectIdArgs : get_project(id)
    \/ \E id \in ProjectIdArgs : now < StatsMaxNow /\ open_project(id)
    \/ list_projects
    \/ \E id \in DOMAIN projects, f \in ProjectFiles :
          /\ Cardinality(projects[id].images) < StatsMaxFiles
          /\ project_upload_image(id, f)
    \/ \E id \in DOMAIN projects, f \in ProjectFiles :
          /\ Stem(f) \in DOMAIN projects[id].annotations
          /\ Len(projects[id].annotations[Stem(f)]) < StatsMaxAnns
          /\ project_add_annotation(id, f, "ant")
    \/ \E id \in DOMAIN projects, f \in ProjectFiles : project_delete_image(id, f)

SpecStats == Init /\ [][NextStats]_vars

\* two requests that add annotations to a.png and mark it, beside b.png
NextRace ==
    \/ \E n \in AnnotNames : ~Exists(n) /\ pc = [r \in Requests |-> Idle]
                              /\ upload_image("", n, 1)
    \/ \E r \in Requests, c \in { c \in AnnotationCreate : c.label = "ant" /\ c.class_id = 0 /\ c.bbox.x = 500 } :
          /\ uuid < RaceMaxUuid
          /\ add_annotation_load(r, [base |-> "a", sfx |-> <<>>, ext |-> "png"], c)
    \/ \E r \in Requests, d \in BOOLEAN :
          mark_image_done_load(r, [base |-> "a", sfx |-> <<>>, ext |-> "png"], d)
    \/ \E r \in Requests : save_open(r)
    \/ \E r \in Requests : save_close(r)

SpecRace == Init /\ [][NextRace]_vars

\* annotations added while request 1 exports
NextMidExport ==
    \/ \E n \in AnnotNames : ~Exists(n) /\ upload_image("", n, 1)
    \/ \E f \in DOMAIN images, c \in { c \in AnnotationCreate : c.class_id = 1 /\ c.bbox.x = 500 } :
          /\ uuid < MidMaxUuid
          /\ add_annotation(f, c)
    \/ \E format \in {"export_yolo", "export_coco"} : export_begin(1, format)
    \/ export_image(1)
    \/ export_end(1)

SpecMidExport == Init /\ [][NextMidExport]_vars

\* the heartbeats, close signals and monitor iterations of one session
NextSession ==
    \/ lifespan(<<116>>)
    \/ \E token \in SessionTokens : record_heartbeat(token)
    \/ \E token \in SessionTokens : record_close(token)
    \/ run_monitor
    \/ now < SessMaxNow /\ tick

SpecSession == Init /\ [][NextSession]_vars

(***************************************************************************)
(* Claims about the exports (SpecExport).                                  *)
(***************************************************************************)
YoloWritten == last.op = "export_yolo" /\ last.ok
CocoWritten == last.op = "export_coco" /\ last.ok
DoneListed == { f \in Range(list_images) : get_image_done_status(f) = <<TRUE>> }
YoloExported == last.ret.train_images \cup last.ret.val_images

\* C1: a YOLO export writes, under train/images and val/images, exactly the
\* listed images whose record has done = true.
C1_YoloExportsExactlyDone == YoloWritten => YoloExported = DoneListed

ListedLabels ==
    UNION { { ann.label : ann \in Range(get_annotations(f)) } : f \in Range(list_images) }

\* the alphabetical rank of a label among the labels of the listed images
Rank(l) == Cardinality({ m \in ListedLabels : StrLess(Chars(m), Chars(l)) })

LinesRanked(imgs, files) ==
    \A f \in imgs :
        LET lines == files[Stem(f)]
            anns == get_annotations(f)
        IN /\ Len(lines) = Len(anns)
           /\ \A k \in 1..Len(anns) : lines[k].class_id = Rank(anns[k].label)

RowsOf(rows, img_id) ==
    LET OfImage(r) == r.image_id = img_id
    IN SelectSeq(rows, OfImage)

SortedDone == sorted_names(DoneListed)

\* C3: with n participating (done) images, the first floor(n * train_split)
\* of the sorted list go to train and the rest to val; the buckets are
\* disjoint, cover exactly the participating images, and there is no third.
C3_SplitOfParticipating ==
    YoloWritten =>
        LET n == Len(SortedDone)
            k == (n * last.args.train_split) \div 10
        IN /\ last.ret.train_images = { SortedDone[i] : i \in 1..k }
           /\ last.ret.val_images = { SortedDone[i] : i \in (k + 1)..n }
           /\ last.ret.train_images \cap last.ret.val_images = {}
           /\ last.ret.dirs = {"train/images", "train/labels", "val/images", "val/labels"}

\* C4: a YOLO export asked to shuffle with a seed completes with a train/val
\* split that depends only on the store, the split and the seed; without
\* shuffle the split follows the sorted listing.
C4_SeededShuffleExports ==
    last.op = "export_yolo" =>
        /\ "shuffle" \in last.args.extra => last.ok
        /\ last.ok =>
              LET n == Len(list_images)
                  k == (n * last.args.train_split) \div 10
              IN last.ret.train_images \subseteq { list_images[i] : i \in 1..k }

(***************************************************************************)
(* Claims about the image files and their records (Spec).                  *)
(***************************************************************************)
\* C5: every image uploaded and not deleted has a metadata record of its
\* own: loading the record of filename f yields a record whose
\* image.filename is f.
C5_OwnRecord ==
    \A f \in DOMAIN images : HasRecord(f) /\ _load_metadata(f).image.filename = f

WithCounter(f, n) == [base |-> f.base, sfx |-> f.sfx \o <<n>>, ext |-> f.ext]

\* C6: a successful upload_image never overwrites: the returned filename was
\* free, every earlier file keeps its content, and a taken name is stored as
\* stem_n.ext with the smallest free n >= 1.
C6_UploadNeverOverwrites ==
    [][(last'.op = "upload_image" /\ last'.ok) =>
         LET name == last'.args.filename
             got == last'.ret.filename
         IN /\ got \notin DOMAIN images
            /\ got \in DOMAIN images'
            /\ \A f \in DOMAIN images : f \in DOMAIN images' /\ images'[f] = images[f]
            /\ IF name \in DOMAIN images
               THEN \E n \in 1..(Cardinality(DOMAIN images) + 1) :
                       /\ got = WithCounter(name, n)
                       /\ \A j \in 1..(n - 1) : WithCounter(name, j) \in DOMAIN images
               ELSE got = name]_vars

\* a colliding upload stored under the second counter: both files are there,
\* with different contents
C6_Witness ==
    /\ last.op = "upload_image"
    /\ last.branch = "renamed"
    /\ last.ret.filename = WithCounter(last.args.filename, 2)
    /\ get_image_path(last.args.filename) # <<>>
    /\ get_image_path(last.ret.filename) # <<>>
    /\ images[last.args.filename] # images[last.ret.filename]

IsSorted(names) ==
    \A i \in 1..(Len(names) - 1) : StrLess(Render(names[i]), Render(names[i + 1]))

\* C7: every image uploaded and not deleted is in list_images(), whatever its
\* filename, and the listing is sorted.
C7_UploadedIsListed ==
    /\ \A f \in DOMAIN images : f \in Range(list_images)
    /\ IsSorted(list_images)

\* C9: add_annotation on an image without a record creates the record (the
\* image's filename and dimensions, done = false) holding the new annotation
\* when the image file exists, and raises not-found, changing nothing, when
\* it does not.
C9_AddMaterializesOrFails ==
    [][(last'.op = "add_annotation" /\ ~HasRecord(last'.args.filename)) =>
         LET f == last'.args.filename
         IN IF Exists(f)
            THEN /\ last'.ok
                 /\ Stem(f) \in DOMAIN annotations'
                 /\ annotations'[Stem(f)] =
                       [image |-> [filename |-> f,
                                   width |-> ImageSize(images[f]).width,
                                   height |-> ImageSize(images[f]).height],
                        annotations |-> <<last'.ret>>,
                        done |-> FALSE]
                 /\ images' = images
            ELSE /\ ~last'.ok
                 /\ last'.ret = "FileNotFoundError"
                 /\ annotations' = annotations
                 /\ images' = images]_vars

\* an annotation added to an image file that had no record
C9_Witness ==
    /\ last.op = "add_annotation"
    /\ last.branch = "materialized"
    /\ get_annotations(last.args.filename) = <<last.ret>>

(***************************************************************************)
(* Claims about the annotation lists (SpecCopy, SpecAnnot).                *)
(***************************************************************************)
AllIds == UNION { { ann.id : ann \in Range(annotations[q].annotations) }
                  : q \in DOMAIN annotations }

CopyAppended(src, tgt) ==
    LET S == get_annotations(src)
        T == get_annotations(tgt)
        T2 == get_annotations(tgt)'
    IN /\ Len(T2) = Len(T) + Len(S)
       /\ \A i \in 1..Len(T) : T2[i] = T[i]
       /\ \A k \in 1..Len(S) :
             /\ T2[Len(T) + k].label = S[k].label
             /\ T2[Len(T) + k].class_id = S[k].class_id
             /\ T2[Len(T) + k].bbox = S[k].bbox
             /\ T2[Len(T) + k].id \notin AllIds
             /\ \A j \in 1..Len(S) : j # k => T2[Len(T) + k].id # T2[Len(T) + j].id
       /\ last'.ret = Len(S)

CopyStep == last'.op = "copy_annotations" /\ last'.branch = "saved"

\* C8 as stated: the copies are appended behind the target's annotations,
\* with new ids, and the source's list is unchanged.
C8_CopyAppendsSourceUnchanged ==
    [][\A src \in AnnotNames, tgt \in AnnotNames :
         (CopyStep /\ last'.args = [source |-> src, target |-> tgt]) =>
            /\ CopyAppended(src, tgt)
            /\ get_annotations(src)' = get_annotations(src)]_vars

\* C8 amended: the source's list is unchanged when source and target have
\* different records; when they share the record it is the target's.
C8_CopyAppends ==
    [][\A src \in AnnotNames, tgt \in AnnotNames :
         (CopyStep /\ last'.args = [source |-> src, target |-> tgt]) =>
            /\ CopyAppended(src, tgt)
            /\ (Stem(src) # Stem(tgt) => get_annotations(src)' = get_annotations(src))]_vars

\* two annotations copied behind an annotation the target already had
C8_Witness ==
    /\ last.op = "copy_annotations"
    /\ last.ret = 2
    /\ Stem(last.args.source) # Stem(last.args.target)
    /\ Len(get_annotations(last.args.target)) = 3
    /\ get_annotations(last.args.source)[1].label # get_annotations(last.args.source)[2].label

Patched(old, new, update) ==
    /\ new.id = old.id
    /\ new.label = (IF update.label = <<>> THEN old.label ELSE update.label[1])
    /\ new.class_id = (IF update.class_id = <<>> THEN old.class_id ELSE update.class_id[1])
    /\ new.bbox = (IF update.bbox = <<>> THEN old.bbox ELSE update.bbox[1])

\* C10: update_annotation changes only the patched fields of the annotation
\* with the id, in place; the other annotations, the done flag, the image
\* info and the other records stay; without record or id it returns
\* not-found and changes nothing.
C10_UpdateChangesOnlyPatched ==
    [][\A f \in AnnotNames :
         (last'.op = "update_annotation" /\ last'.args.filename = f) =>
            LET id == last'.args.annotation_id
                old == get_annotations(f)
                new == get_annotations(f)'
            IN IF \E i \in 1..Len(old) : old[i].id = id
               THEN /\ last'.ok
                    /\ Len(new) = Len(old)
                    /\ \A i \in 1..Len(old) :
                          IF old[i].id = id
                          THEN /\ Patched(old[i], new[i], last'.args.update)
                               /\ last'.ret = new[i]
                          ELSE new[i] = old[i]
                    /\ annotations'[Stem(f)].done = annotations[Stem(f)].done
                    /\ annotations'[Stem(f)].image = annotations[Stem(f)].image
                    /\ DOMAIN annotations' = DOMAIN annotations
                    /\ \A q \in DOMAIN annotations \ {Stem(f)} :
                          annotations'[q] = annotations[q]
                    /\ images' = images
               ELSE /\ ~last'.ok
                    /\ annotations' = annotations
                    /\ images' = images]_vars

\* a label-only patch on the second of two annotations of a done image
C10_Witness ==
    /\ last.op = "update_annotation"
    /\ last.ok
    /\ last.args.update.label # <<>>
    /\ last.args.update.class_id = <<>>
    /\ last.args.update.bbox = <<>>
    /\ Len(get_annotations(last.args.filename)) = 2
    /\ get_annotations(last.args.filename)[2] = last.ret
    /\ last.ret.class_id = 1
    /\ get_image_done_status(last.args.filename) = <<TRUE>>

(***************************************************************************)
(* Claims about the image files and their records (Spec).                  *)
(***************************************************************************)
\* C11: delete_image(filename) removes the image file and the metadata record,
\* returns true exactly when one of the two existed, and afterwards
\* get_image_path is absent, get_annotations is empty, get_image_done_status
\* is absent and list_images does not contain the filename.
C11_DeleteRemovesBoth ==
    [][\A f \in ArgNames :
          (last'.op = "delete_image" /\ last'.args = [filename |-> f]) =>
              /\ last'.ret = (Exists(f) \/ HasRecord(f))
              /\ get_image_path(f)' = <<>>
              /\ get_annotations(f)' = <<>>
              /\ get_image_done_status(f)' = <<>>
              /\ f \notin Range(list_images)']_vars

\* a deletion removed something while another image file stays
C11_Witness == last.op = "delete_image" /\ last.ret = TRUE /\ DOMAIN images # {}

\* the records of the stems other than the one of f
OtherRecords(f) ==
    [q \in DOMAIN annotations \ {_get_annotation_path(f)} |-> annotations[q]]

\* C12: mark_image_done(filename, done) on a filename with a metadata record
\* sets the done flag to the value given and leaves the annotation list, the
\* image info, every other record and the image files as they were; on a
\* filename without a record it returns false and creates no record, also
\* when the image file exists.
C12_MarkDoneSetsOnlyFlag ==
    [][\A f \in ArgNames, d \in BOOLEAN :
          (last'.op = "mark_image_done" /\ last'.args = [filename |-> f, done |-> d]) =>
              IF HasRecord(f)
              THEN /\ last'.ret = TRUE
                   /\ get_image_done_status(f)' = <<d>>
                   /\ get_annotations(f)' = get_annotations(f)
                   /\ _load_metadata(f)'.image = _load_metadata(f).image
                   /\ OtherRecords(f)' = OtherRecords(f)
                   /\ UNCHANGED images
              ELSE /\ last'.ret = FALSE
                   /\ UNCHANGED <<images, annotations>>]_vars

\* an image with an annotation was marked done
C12_Witness ==
    /\ last.op = "mark_image_done" /\ last.branch = "saved" /\ last.args.done
    /\ get_image_done_status(last.args.filename) = <<TRUE>>
    /\ get_annotations(last.args.filename) # <<>>

\* a filename whose image file exists without a record was marked
MarkedFileWithoutRecord ==
    /\ last.op = "mark_image_done" /\ last.branch = "no_record"
    /\ Exists(last.args.filename) /\ ~HasRecord(last.args.filename)

(***************************************************************************)
(* Claims about the annotation lists (SpecAnnot).                          *)
(***************************************************************************)
\* C13: the state of the store is on disk only: an image just uploaded has an
\* empty annotation list and done = false, every add_annotation appends the
\* annotation it returns to the stored list and keeps the done flag, and a
\* store instance constructed over the same directory reads the same
\* annotations (ids, labels, class ids, boxes, order) and done flags.
C13_StateLivesOnDisk ==
    [][\A f \in AnnotNames :
          /\ (last'.op = "upload_image" /\ last'.ok /\ last'.ret.filename = f) =>
                 /\ get_annotations(f)' = <<>>
                 /\ get_image_done_status(f)' = <<FALSE>>
          /\ (last'.op = "add_annotation" /\ last'.ok /\ last'.args = [filename |-> f]) =>
                 /\ get_annotations(f)' = Append(get_annotations(f), last'.ret)
                 /\ HasRecord(f) => get_image_done_status(f)' = get_image_done_status(f)
          /\ last'.op = "__init__" =>
                 /\ get_annotations(f)' = get_annotations(f)
                 /\ get_image_done_status(f)' = get_image_done_status(f)
                 /\ get_image_path(f)' = get_image_path(f)]_vars

\* a new instance over a directory that holds a done image with two annotations
C13_Witness ==
    /\ last.op = "__init__"
    /\ \E f \in AnnotNames :
          Len(get_annotations(f)) = 2 /\ get_image_done_status(f) = <<TRUE>>

(***************************************************************************)
(* Claims about the exports of all formats (SpecFormats).                  *)
(***************************************************************************)
ExportOps ==
    {"export_yolo", "export_coco", "export_pascal_voc", "export_createml",
     "export_csv", "export_yolo_zip", "export_pascal_voc_zip"}

\* a step of an export: a directory export, or a step of a zip export
ExportStep == last'.op \in ExportOps \/ pc' # pc \/ zips' # zips

\* C14: no step of an export (YOLO, COCO, Pascal VOC, CreateML, CSV, the two
\* zip exports) changes an image file or a metadata record, nor what
\* list_images and get_project_info return.
C14_ExportsLeaveStore ==
    [][ExportStep =>
          /\ UNCHANGED <<images, annotations>>
          /\ list_images' = list_images
          /\ get_project_info' = get_project_info]_vars

\* a zip export returned over a store of two images and an annotation
C14_Witness ==
    /\ last.op = "export_yolo_zip" /\ last.ok
    /\ Cardinality(DOMAIN images) = 2
    /\ get_project_info.annotation_count = 1

(***************************************************************************)
(* Claims about images without a record and about COCO ids (SpecExport).   *)
(***************************************************************************)
\* the listed images whose metadata record is missing
NoRecordListed == { f \in Range(list_images) : ~HasRecord(f) }
RecordListed == { f \in Range(list_images) : HasRecord(f) }

\* the images an export of the format of the last call has put out
Exported ==
    CASE last.op = "export_yolo" ->
            YoloExported
            \cup { f \in Range(list_images) :
                     Stem(f) \in DOMAIN last.ret.train_labels \cup DOMAIN last.ret.val_labels }
      [] last.op = "export_coco" ->
            { last.ret.images[i].file_name : i \in 1..Len(last.ret.images) }
      [] last.op = "export_pascal_voc" ->
            last.ret.JPEGImages
            \cup { f \in Range(list_images) : Stem(f) \in DOMAIN last.ret.Annotations }
      [] last.op = "export_createml" ->
            { last.ret[i].image : i \in 1..Len(last.ret) }
      [] last.op = "export_csv" ->
            { last.ret.rows[i].filename : i \in 1..Len(last.ret.rows) }

DirectoryExportOps ==
    {"export_yolo", "export_coco", "export_pascal_voc", "export_createml", "export_csv"}

\* C15: in each of the five formats a listed image whose metadata record is
\* missing is left out of the output (no image copy, no label or XML file, no
\* entry, no row), and the export completes.
C15_SkipsImagesWithoutRecord ==
    (last.op \in DirectoryExportOps /\ last.ok) => Exported \cap NoRecordListed = {}

\* C16: in a COCO export the image ids are 0..k-1 over the k exported images
\* in listing order, the annotation ids are 1..m, every image_id is the id of
\* an entry of images and every category_id the id of an entry of categories.
C16_CocoIdsConsecutive ==
    CocoWritten =>
        LET imgs == last.ret.images
            anns == last.ret.annotations
            cats == last.ret.categories
        IN /\ \A i \in 1..Len(imgs) : imgs[i].id = i - 1
           /\ \A i \in 1..Len(anns) : anns[i].id = i
           /\ \A i \in 1..Len(anns) :
                 /\ \E j \in 1..Len(imgs) : imgs[j].id = anns[i].image_id
                 /\ \E j \in 1..Len(cats) : cats[j].id = anns[i].category_id

\* the four formats other than YOLO leave out the images without a record;
\* COCO, Pascal VOC and CreateML put out every image with one
OthersSkipImagesWithoutRecord ==
    (last.op \in DirectoryExportOps \ {"export_yolo"} /\ last.ok) =>
        /\ Exported \cap NoRecordListed = {}
        /\ last.op # "export_csv" => Exported = RecordListed

\* an export of another format than YOLO ran over a listed image without record
OthersSkipped ==
    /\ last.op \in DirectoryExportOps \ {"export_yolo"} /\ last.ok
    /\ NoRecordListed # {} /\ RecordListed # {}

\* in a COCO export the annotation ids are 1..m and the references resolve
CocoReferencesResolve ==
    CocoWritten =>
        LET imgs == last.ret.images
            anns == last.ret.annotations
            cats == last.ret.categories
        IN /\ \A i \in 1..Len(anns) : anns[i].id = i
           /\ \A i \in 1..Len(anns) :
                 /\ \E j \in 1..Len(imgs) : imgs[j].id = anns[i].image_id
                 /\ \E j \in 1..Len(cats) : cats[j].id = anns[i].category_id

(***************************************************************************)
(* Claims about the pixel geometry (SpecBox).                              *)
(***************************************************************************)
\* t is the truncation of num / den for 0 <= num, 0 < den
IsTruncOf(t, num, den) == t * den <= num /\ num < (t + 1) * den

\* c is what the claim says of the corners of bbox on an image of W x H:
\* within the image and ordered, and the truncated value of
\* (x -/+ width / 2) * W, (y -/+ height / 2) * H where that lies in the image
CornersAsClaimed(c, bbox, W, H) ==
    LET x_lo == (2 * bbox.x - bbox.width) * W
        x_hi == (2 * bbox.x + bbox.width) * W
        y_lo == (2 * bbox.y - bbox.height) * H
        y_hi == (2 * bbox.y + bbox.height) * H
    IN /\ 0 <= c.x_min /\ c.x_min <= c.x_max /\ c.x_max <= W
       /\ 0 <= c.y_min /\ c.y_min <= c.y_max /\ c.y_max <= H
       /\ (0 <= x_lo /\ x_lo <= 2000 * W) => IsTruncOf(c.x_min, x_lo, 2000)
       /\ (0 <= x_hi /\ x_hi <= 2000 * W) => IsTruncOf(c.x_max, x_hi, 2000)
       /\ (0 <= y_lo /\ y_lo <= 2000 * H) => IsTruncOf(c.y_min, y_lo, 2000)
       /\ (0 <= y_hi /\ y_hi <= 2000 * H) => IsTruncOf(c.y_max, y_hi, 2000)
       /\ (bbox = [x |-> 500, y |-> 500, width |-> 200, height |-> 200]
              /\ W = 100 /\ H = 100) =>
             c = [x_min |-> 40, y_min |-> 40, x_max |-> 60, y_max |-> 60]

RowCorners(row) ==
    [x_min |-> row.x_min, y_min |-> row.y_min, x_max |-> row.x_max, y_max |-> row.y_max]

\* C17: for every annotation (box fields in [0,1]) and image size W x H the
\* corners the Pascal VOC and CSV exports write are integers with
\* 0 <= x_min <= x_max <= W and 0 <= y_min <= y_max <= H, equal to the
\* truncated (x -/+ width/2) * W and (y -/+ height/2) * H where those lie
\* inside the image; box (0.5, 0.5, 0.2, 0.2) on 100 x 100 gives 40, 40, 60, 60.
C17_CornersClampedTruncated ==
    LET anns == get_annotations(BoxName)
        size == _load_metadata(BoxName).image
    IN /\ (last.op = "export_pascal_voc" /\ HasRecord(BoxName)) =>
             LET objects == last.ret.Annotations[Stem(BoxName)].objects
             IN /\ Len(objects) = Len(anns)
                /\ \A k \in 1..Len(anns) :
                      CornersAsClaimed(objects[k].bndbox, anns[k].bbox,
                                       size.width, size.height)
       /\ (last.op = "export_csv" /\ HasRecord(BoxName)) =>
             /\ Len(last.ret.rows) = Len(anns)
             /\ \A k \in 1..Len(anns) :
                   CornersAsClaimed(RowCorners(last.ret.rows[k]), anns[k].bbox,
                                    size.width, size.height)

\* a CSV export wrote a box that reaches over the left and the lower edge
C17_Witness ==
    /\ last.op = "export_csv" /\ Len(last.ret.rows) = 1
    /\ get_annotations(BoxName)[1].bbox =
          [x |-> 0, y |-> 750, width |-> 1000, height |-> 1000]
    /\ last.ret.rows[1].x_min = 0
    /\ last.ret.rows[1].y_max = last.ret.rows[1].image_height

\* C18: in a COCO export every annotation's bbox is [(x - width/2) * W,
\* (y - height/2) * H, width * W, height * H] from the stored box and the
\* recorded image size, not clamped, the area is the product of the two
\* pixel sizes and iscrowd is 0; box (0.5, 0.5, 0.2, 0.2) on 100 x 100 gives
\* [40, 40, 20, 20] and area 400.  (bbox in 1/2000 pixel, area in 1/100.)
C18_CocoBoxUnclamped ==
    (CocoWritten /\ HasRecord(BoxName)) =>
        LET anns == get_annotations(BoxName)
            W == _load_metadata(BoxName).image.width
            H == _load_metadata(BoxName).image.height
            rows == last.ret.annotations
        IN /\ Len(rows) = Len(anns)
           /\ \A k \in 1..Len(anns) :
                 LET b == anns[k].bbox
                     r == rows[k]
                 IN /\ 1000 * r.bbox[1] = 2000 * b.x * W - 1000 * b.width * W
                    /\ 1000 * r.bbox[2] = 2000 * b.y * H - 1000 * b.height * H
                    /\ r.bbox[3] = 2 * b.width * W
                    /\ r.bbox[4] = 2 * b.height * H
                    /\ r.bbox[3] % 200 = 0 /\ r.bbox[4] % 200 = 0
                    /\ r.area = (r.bbox[3] \div 200) * (r.bbox[4] \div 200)
                    /\ r.iscrowd = 0
                    /\ (b = [x |-> 500, y |-> 500, width |-> 200, height |-> 200]
                           /\ W = 100 /\ H = 100) =>
                          /\ r.bbox = <<40 * 2000, 40 * 2000, 20 * 2000, 20 * 2000>>
                          /\ r.area = 400 * 100

\* a COCO export wrote a box whose x_min is negative
C18_Witness ==
    /\ CocoWritten /\ Len(last.ret.annotations) = 1
    /\ last.ret.annotations[1].bbox[1] < 0

(***************************************************************************)
(* Claims about the zip exports and data.yaml (SpecZip).                   *)
(***************************************************************************)
ZipOps == {"export_yolo_zip", "export_pascal_voc_zip"}

\* a request is between the start and the end of a zip export to zip
Active(zip) == \E r \in Requests : pc[r].stage # "idle" /\ pc[r].zip = zip

\* the archive at the location of zip is the whole archive written by r
WholeArchiveOf(zip, r, files) ==
    /\ zip \in DOMAIN zips
    /\ zips[zip].closed
    /\ zips[zip].entries = { [by |-> r, name |-> e] : e \in files }

\* C19: a zip export that failed leaves no archive, partial or stale, at the
\* location handed to callers, and the location a zip export returned holds
\* the whole archive of that export, never the half-written archive of an
\* overlapping export.
C19_ZipAllOrNothing ==
    /\ (last.op \in ZipOps /\ ~last.ok /\ ~Active(last.args.zip)) =>
           last.args.zip \notin DOMAIN zips
    /\ (last.op \in ZipOps /\ last.ok) =>
           WholeArchiveOf(last.args.zip, last.args.request, last.ret.files)

\* the part of C19 about a failure, alone
FailedZipLeavesNothing ==
    (last.op \in ZipOps /\ ~last.ok /\ ~Active(last.args.zip)) =>
        last.args.zip \notin DOMAIN zips

\* the part of C19 about a returned location, alone
ReturnedZipIsWhole ==
    (last.op \in ZipOps /\ last.ok) =>
        WholeArchiveOf(last.args.zip, last.args.request, last.ret.files)

\* every data.yaml written: by the directory export, into the temporary
\* directory of a zip export, into an archive
YamlsWritten ==
    (IF YoloWritten THEN {last.ret.yaml} ELSE {})
    \cup { pc[r].yaml[1] : r \in { q \in Requests : pc[q].yaml # <<>> } }
    \cup { zips[z].yaml[1] : z \in { q \in DOMAIN zips : zips[q].yaml # <<>> } }

\* train, val, nc and names of a data.yaml are as claimed
YamlRestAsClaimed(yaml) ==
    /\ yaml.train = "train/images" /\ yaml.val = "val/images"
    /\ DOMAIN yaml.names = 0..(yaml.nc - 1)
    /\ \A i \in DOMAIN yaml.names, j \in DOMAIN yaml.names :
          i < j => StrLess(Chars(yaml.names[i]), Chars(yaml.names[j]))

\* C20: the data.yaml of every YOLO export (directory or zip) has the
\* relative entry 'path: .', never the absolute output or temporary
\* directory, with train: train/images, val: val/images, nc the number of
\* distinct labels and one names entry per label in sorted order.
C20_YamlRelativePath ==
    /\ \A yaml \in YamlsWritten : yaml.path = <<".">> /\ YamlRestAsClaimed(yaml)
    /\ YoloWritten =>
          /\ last.ret.yaml.nc = Cardinality(ListedLabels)
          /\ { last.ret.yaml.names[i] : i \in DOMAIN last.ret.yaml.names } = ListedLabels

\* all of C20 but the path entry
YamlRestHolds ==
    /\ \A yaml \in YamlsWritten : YamlRestAsClaimed(yaml)
    /\ YoloWritten =>
          /\ last.ret.yaml.nc = Cardinality(ListedLabels)
          /\ { last.ret.yaml.names[i] : i \in DOMAIN last.ret.yaml.names } = ListedLabels

\* a data.yaml with a label reached an archive
YamlInArchive == \E z \in DOMAIN zips : zips[z].yaml # <<>> /\ zips[z].yaml[1].nc = 1

CreateStep == last'.op = "create_project" /\ now' = now + 2

\* C22: the id create_project returns differs from the id of every existing
\* project, so that no create reuses the directory of another project,
\* overwrites its project.json or shares its images and annotations.
C22_ProjectIdsUnique ==
    [][CreateStep =>
          /\ last'.ret.id \notin DOMAIN projects
          /\ \A q \in DOMAIN projects : projects'[q] = projects[q]]_vars

\* the projects that have a project.json
WithMeta == { q \in DOMAIN projects : projects[q].meta # <<>> }

\* the result of the list_projects that completed last holds every project
\* with a project.json once, the later last_opened first
ListedByLastOpened ==
    last.op = "list_projects" =>
        /\ Len(last.ret) = Cardinality(WithMeta)
        /\ { last.ret[i].id : i \in 1..Len(last.ret) } = WithMeta
        /\ \A i \in 1..Len(last.ret), j \in 1..Len(last.ret) :
              i < j => last.ret[i].last_opened > last.ret[j].last_opened

\* the project id has the latest last_opened of all
MostRecent(id) ==
    \A q \in WithMeta \ {id} :
        projects[q].meta[1].last_opened < projects[id].meta[1].last_opened

OpenStep(id) ==
    /\ last'.op = "open_project" /\ last'.branch = "found"
    /\ last'.args = [project_id |-> id]
    /\ projects' # projects

\* C23: list_projects returns every project that has a project.json, by
\* last_opened descending; the project created or opened last has the latest
\* last_opened (so it is listed first), and open_project changes last_opened
\* and the stored counters only, never id, name or created_at, nor another
\* project.
C23_ListedByLastOpened ==
    [][/\ ListedByLastOpened'
       /\ \A id \in DOMAIN projects' :
             (CreateStep /\ last'.ret.id = id) => MostRecent(id)'
       /\ \A id \in DOMAIN projects :
             OpenStep(id) =>
                /\ MostRecent(id)'
                /\ projects'[id].meta[1].id = projects[id].meta[1].id
                /\ projects'[id].meta[1].name = projects[id].meta[1].name
                /\ projects'[id].meta[1].created_at = projects[id].meta[1].created_at
                /\ projects'[id].images = projects[id].images
                /\ projects'[id].annotations = projects[id].annotations
                /\ \A q \in DOMAIN projects \ {id} : projects'[q] = projects[q]]_vars

\* two projects are listed, the one created first in front: it was opened later
C23_Witness ==
    /\ last.op = "list_projects" /\ Len(last.ret) = 2
    /\ last.ret[1].created_at < last.ret[2].created_at

\* what is on disk in the directory of project id: the files of images/ with
\* an image extension, the annotations of all records of annotations/
ImageFilesOnDisk(id) ==
    { f \in projects[id].images : f.ext \in {"jpg", "jpeg", "png", "webp", "bmp",
                                              "JPG", "JPEG", "PNG", "WEBP", "BMP"} }
AnnotationsOnDisk(id) ==
    { qi \in (DOMAIN projects[id].annotations) \X (1..(StatsMaxAnns + 1)) :
        qi[2] <= Len(projects[id].annotations[qi[1]]) }

CountsOnDisk(project) ==
    /\ project.id \in DOMAIN projects
    /\ project.image_count = Cardinality(ImageFilesOnDisk(project.id))
    /\ project.annotation_count = Cardinality(AnnotationsOnDisk(project.id))

\* C24: the image_count and annotation_count of every project returned by
\* get_project, open_project and list_projects are the number of
\* image-extension files under images/ and the sum of the annotation list
\* lengths under annotations/ as they are on disk at the call, whatever
\* project.json stores.
C24_CountsAreOnDisk ==
    /\ (last.op \in {"get_project", "open_project"} /\ last.branch = "found")
          => CountsOnDisk(last.ret[1])
    /\ last.op = "list_projects"
          => \A i \in 1..Len(last.ret) : CountsOnDisk(last.ret[i])

\* get_project counts one image beside a gif and two annotations while
\* project.json still stores the zeros written by create_project
C24_Witness ==
    /\ last.op = "get_project" /\ last.branch = "found"
    /\ last.ret[1].image_count = 1 /\ last.ret[1].annotation_count = 2
    /\ Cardinality(projects[last.ret[1].id].images) = 2
    /\ projects[last.ret[1].id].meta[1].image_count = 0
    /\ projects[last.ret[1].id].meta[1].annotation_count = 0

\* C27: after delete_project(id) the directory of id is absent until
\* create_project returns that id again: no other step brings a project
\* directory into existence, so that get_project_data_dir(id) returns nothing,
\* get_project(id) reports not found and list_projects omits id, also when
\* a request that resolved the directory earlier constructs its store later.
C27_DeletedStaysGone ==
    [][/\ \A id \in DOMAIN projects' :
             id \notin DOMAIN projects => (CreateStep /\ last'.ret.id = id)
       /\ \A id \in ProjectIdArgs :
             (id \notin DOMAIN projects /\ last'.args = [project_id |-> id]) =>
                /\ last'.op = "get_project_data_dir" => last'.ret = <<>>
                /\ last'.op = "get_project" => last'.ret = <<>>]_vars

\* the parts that hold: a directory without project.json is not found by
\* get_project and not listed
ResurrectedIsNotListed ==
    /\ (last.op = "get_project" /\ last.args.project_id \notin WithMeta) => last.ret = <<>>
    /\ last.op = "list_projects"
          => \A i \in 1..Len(last.ret) : last.ret[i].id \in WithMeta

\* a directory exists again after its deletion, without a project.json
Resurrected ==
    /\ last.op = "get_project_data_dir" /\ last.ret # <<>>
    /\ projects[last.ret[1]].meta = <<>>

\* C28: delete_image(f) leaves every other image g of the store alone: the
\* file of g, and what get_annotations(g) and get_image_done_status(g)
\* return, are the same before and after the call.
C28_DeleteTouchesOnlyOne ==
    [][\A f \in ArgNames :
          (last'.op = "delete_image" /\ last'.args = [filename |-> f]) =>
              \A g \in DOMAIN images \ {f} :
                  /\ g \in DOMAIN images' /\ images'[g] = images[g]
                  /\ get_annotations(g)' = get_annotations(g)
                  /\ get_image_done_status(g)' = get_image_done_status(g)]_vars

\* the part that holds: the files of the other images stay
DeleteKeepsOtherFiles ==
    [][\A f \in ArgNames :
          (last'.op = "delete_image" /\ last'.args = [filename |-> f]) =>
              \A g \in DOMAIN images \ {f} :
                  g \in DOMAIN images' /\ images'[g] = images[g]]_vars

(***************************************************************************)
(* Claims about the browser session (SpecSession).                         *)
(***************************************************************************)
\* an iteration of run_monitor that reads the clock at now
PollStep ==
    /\ session.monitor = "running"
    /\ last'.op = "run_monitor" /\ last'.args = [now |-> now] /\ now' = now

ShutdownInvoked == session'.callbacks = session.callbacks + 1

\* C29: at every iteration of the running monitor, when a valid heartbeat
\* was recorded and none arrived for inactivity_timeout_seconds the shutdown
\* callback is invoked in that iteration, and when no valid heartbeat was ever
\* recorded it is invoked once startup_timeout_seconds have passed since
\* construction, whatever heartbeat and close signals came before.
C29_SilenceNeverOutlastsLimit ==
    [][(PollStep /\ ~session._shutdown_triggered) =>
          /\ (/\ session._last_heartbeat_at # <<>>
              /\ now - session._last_heartbeat_at[1] >= inactivity_timeout_seconds)
                => ShutdownInvoked
          /\ (/\ session._last_heartbeat_at = <<>>
              /\ now - session._started_at >= startup_timeout_seconds)
                => ShutdownInvoked]_vars

\* the part that holds: without a pending close signal the two limits are kept
LimitsKeptWithoutClose ==
    [][(PollStep /\ ~session._shutdown_triggered /\ session._close_requested_at = <<>>) =>
          /\ (/\ session._last_heartbeat_at # <<>>
              /\ now - session._last_heartbeat_at[1] >= inactivity_timeout_seconds)
                => ShutdownInvoked
          /\ (/\ session._last_heartbeat_at = <<>>
              /\ now - session._started_at >= startup_timeout_seconds)
                => ShutdownInvoked]_vars

\* the monitor waits although the heartbeat silence has reached the limit
SilentBeyondLimit ==
    /\ last.op = "run_monitor" /\ last.ret = FALSE /\ session.monitor = "running"
    /\ session._last_heartbeat_at # <<>>
    /\ last.args.now - session._last_heartbeat_at[1] >= inactivity_timeout_seconds

\* a heartbeat or a close with token has just returned or raised
SignalStep(token) ==
    /\ last'.op \in {"record_heartbeat", "record_close"}
    /\ last'.args = [token |-> token]
    /\ now' = now

\* a valid heartbeat withdraws the close signal, and a monitor iteration that
\* finds no close signal follows the inactivity rule alone
CloseCancelledByHeartbeat ==
    [][/\ (SignalStep(session.token) /\ last'.op = "record_heartbeat")
            => /\ session'._close_requested_at = <<>>
               /\ session'._last_heartbeat_at = <<now>>
       /\ (PollStep /\ session._close_requested_at = <<>>
                    /\ session._last_heartbeat_at # <<>>)
            => (ShutdownInvoked <=>
                  /\ ~session._shutdown_triggered
                  /\ now - session._last_heartbeat_at[1] >= inactivity_timeout_seconds)]_vars

\* a signal whose token is empty or differs from the session's leaves the
\* session as it was
InvalidSignalChangesNothing ==
    [][\A token \in SessionTokens \ {session.token} :
          SignalStep(token) => session' = session]_vars

ShutdownAtMostOnce == session.callbacks <= 1

\* C30: a valid heartbeat recorded after record_close withdraws the close, so
\* that only the inactivity rule can trigger shutdown; a heartbeat or close
\* whose token is empty or does not match returns false and changes no session
\* state; the shutdown callback is invoked at most once.
C30_CloseCancelledInvalidRejected ==
    [][/\ (SignalStep(session.token) /\ last'.op = "record_heartbeat")
            => /\ session'._close_requested_at = <<>>
               /\ session'._last_heartbeat_at = <<now>>
       /\ (PollStep /\ session._close_requested_at = <<>>
                    /\ session._last_heartbeat_at # <<>>)
            => (ShutdownInvoked <=>
                  /\ ~session._shutdown_triggered
                  /\ now - session._last_heartbeat_at[1] >= inactivity_timeout_seconds)
       /\ \A token \in SessionTokens \ {session.token} :
             SignalStep(token) =>
                /\ last'.ok /\ last'.ret = FALSE
                /\ session' = session
       /\ session'.callbacks <= 1]_vars

(***************************************************************************)
(* Claims about two requests on one record file (SpecRace).                *)
(***************************************************************************)
\* request r returns from its save
SaveReturns(r) == pc[r].stage = "opened" /\ pc'[r] = Idle

\* C25: when two mutating operations on the same image interleave their
\* loads and saves, the record after a save is exactly the metadata that save
\* wrote (so the last saver wins, nothing is merged and the file is never a
\* mixture of two writes), and the records of the other images are untouched.
C25_LastSaverWins ==
    [][\A r \in Requests :
          SaveReturns(r) =>
              /\ annotations'[_get_annotation_path(pc[r].filename)] = pc[r].metadata
              /\ \A q \in DOMAIN annotations \ {_get_annotation_path(pc[r].filename)} :
                    annotations'[q] = annotations[q]]_vars

\* the parts that hold: a save leaves the other records alone, and a record
\* file that is one document is the metadata of one save or upload, lost
\* updates included
SaveKeepsOtherRecords ==
    [][\A r \in Requests :
          SaveReturns(r) =>
              \A q \in DOMAIN annotations \ {_get_annotation_path(pc[r].filename)} :
                  annotations'[q] = annotations[q]]_vars

WholeSaveIsOwnWrite ==
    [][\A r \in Requests :
          (SaveReturns(r) /\ json_load(annotations'[_get_annotation_path(pc[r].filename)]) # <<>>)
              => annotations'[_get_annotation_path(pc[r].filename)] = pc[r].metadata]_vars

\* two add_annotation calls returned and the record holds one annotation
LostUpdate ==
    /\ uuid = 2 /\ pc = [r \in Requests |-> Idle]
    /\ last.op = "add_annotation" /\ last.ok
    /\ json_load(annotations[[base |-> "a", sfx |-> <<>>]]) # <<>>
    /\ Len(annotations[[base |-> "a", sfx |-> <<>>]].annotations) = 1

\* no save is in progress and a record file is not one JSON document
MixedRecord ==
    /\ pc = [r \in Requests |-> Idle]
    /\ \E q \in DOMAIN annotations :
          json_load(annotations[q]) = <<>> /\ annotations[q].head # <<>>

(***************************************************************************)
(* Claims about an export with the store changing under it (SpecMidExport).*)
(***************************************************************************)
\* the rows of the finished export whose label is not in its label list
LateRows ==
    { k \in 1..Len(last.ret) : last.ret[k].label \notin Range(last.args.labels) }

\* C26: an export during which an annotation with a label outside the
\* already computed label list was added still completes, and emits that
\* annotation with its stored class_id as the numeric id (YOLO class id, COCO
\* category_id).
C26_LateLabelKeepsClassId ==
    last.op \in {"export_yolo", "export_coco"} =>
        /\ last.ok
        /\ \A k \in LateRows : last.ret[k].written = last.ret[k].class_id

\* the part that holds: the YOLO export completes and writes the stored
\* class_id for such a label
YoloLateLabelKeepsClassId ==
    last.op = "export_yolo" =>
        /\ last.ok
        /\ \A k \in LateRows : last.ret[k].written = last.ret[k].class_id

\* a YOLO export emitted an annotation whose label its list does not hold
YoloLateLabel == last.op = "export_yolo" /\ last.ok /\ LateRows # {}

====
